---- MODULE Spec2Model ----
(***************************************************************************)
(* Model of the inference control plane of moondream-station:              *)
(*   core/simple_worker_pool.py  SimpleWorkerPool                          *)
(*   core/inference_service.py   InferenceService                          *)
(*   core/rest_server.py         RestServer: routes, auth, idle monitor    *)
(*   core/service.py             ServiceManager                            *)
(*                                                                         *)
(* Threads are modelled by program counters.  A step is one atomic effect  *)
(* on shared state: one queue.Queue call (atomic under the queue's own     *)
(* mutex), one critical section of SimpleWorkerPool._lock, or one          *)
(* read/write of an attribute.  Every critical section of _lock is a       *)
(* single read or update, so taking the lock, acting and releasing is one  *)
(* step.                                                                   *)
(*                                                                         *)
(* Time is abstract for the pool: Future.result(timeout) may time out at   *)
(* any moment at which the future is still pending; Queue.get(timeout=1.0) *)
(* raises Empty only when the queue is empty.  The idle monitor reads a    *)
(* clock that counts whole time units.                                     *)
(***************************************************************************)
EXTENDS Integers, Sequences, FiniteSets, TLC

(* ------------------------------ bounds --------------------------------- *)
MaxWorkers == 2
MaxQueue == 2
MaxReq == 3
MaxStarts == 2
MaxSvcReq == 2
MaxGwReq == 1
MaxServers == 2
MaxTime == 6
MaxInterval == 2
MaxIdle == 3
MaxAdvisories == 2
MaxPath == 6
MaxItems == 2
MaxTimeout == 2

(* max_consecutive_errors = 5                                              *)
max_consecutive_errors == 5

Reqs == 1..MaxReq
WorkerIds == 1..MaxWorkers
Servers == 1..MaxServers

(* The poison item shutdown() puts into the queue (None); jobs are request *)
(* ids >= 1.                                                               *)
None == 0

VARIABLES
    n_workers,          \* SimpleWorkerPool.n_workers
    max_queue_size,     \* SimpleWorkerPool.max_queue_size
    request_queue,      \* SimpleWorkerPool.request_queue: Seq of request ids / None
    processing_count,   \* SimpleWorkerPool.processing_count
    timeout_count,      \* SimpleWorkerPool.timeout_count
    running,            \* SimpleWorkerPool._running
    wpc,                \* worker thread -> position in _worker
    wjob,               \* worker thread -> request it holds (None when none)
    spc,                \* request -> position of its Execute/Submit call
    sres,               \* request -> what the call returned ("none" before)
    rhandle,            \* request -> backend handle its function is bound to
    completions,        \* request -> number of set_result calls on its future
    fval,               \* request -> value the future holds
    sd_pc,              \* position of the thread inside shutdown()
    sd_i,               \* iterations of shutdown's poison loop done
    pending_order,      \* history: enqueued, not yet dequeued requests, oldest first
    at_check,           \* history: request -> jobs executing at its full() check
                        \*   (kept for the workers=1, capacity=1 scenario only)
    snap,               \* last result of get_stats() (with history flag)
    worker_pool,        \* InferenceService.worker_pool (FALSE = None)
    current_model,      \* InferenceService.current_model ("None" = None)
    worker_backends,    \* InferenceService.worker_backends: Seq of handles
    start_result,       \* history: result of the last start() ("none" before)
    svc_pc,             \* position of the thread inside start() / stop()
    n_starts,           \* number of start() calls made
    api_key,            \* config "detection_api_key" ("None" = not set)
    gpc,                \* request -> position of its HTTP request in the gateway
    route,              \* request -> route its path matches ("none" before)
    hdr,                \* request -> value of its X-API-Key header ("None" = absent)
    fname,              \* request -> function name taken from its path
    http,               \* request -> status code of its response (0 before)
    detail,             \* request -> detail of its HTTPException ("" when none)
    requests_processed, \* SessionState.state["requests_processed"]
    now,                \* time.time(), in whole time units
    shutdown_check_interval, \* RestServer.shutdown_check_interval
    shutdown_timeout,   \* RestServer.shutdown_timeout
    rest_server,        \* ServiceManager.rest_server (0 = None)
    n_servers,          \* number of RestServer objects constructed
    mgr_pc,             \* position of the caller inside ServiceManager.start/stop
    server_alive,       \* RestServer -> its server thread is serving
    mon_pc,             \* RestServer -> position of its monitor thread
    next_check,         \* RestServer -> time its shutdown_event.wait() times out
    shutdown_event,     \* RestServer -> shutdown_event.is_set()
    last_idle_time,     \* RestServer -> last_idle_time (-1 = None)
    consecutive_idle_checks, \* RestServer -> consecutive_idle_checks
    shutdown_attempted, \* RestServer -> shutdown_attempted
    host_shutdowns,     \* history: times at which runpodctl was run
    started_at,         \* history: RestServer -> time it was constructed
    consecutive_errors, \* RestServer -> consecutive_errors of its monitor_loop
    last_busy,          \* history: RestServer -> time of its last sample that
                        \*   saw work (-1 = none)
    _manifest,          \* ManifestManager._manifest (NoManifest = None)
    cache_file,         \* the file manifest_cache.json: exists and its text
    load_result,        \* history: outcome of the last load_manifest call
    load_source,        \* history: kind of source of the last load_manifest call
    cached_doc,         \* history: the data last passed to _save_to_cache
    current_version,    \* argument of the last get_version_messages call
    applicable_messages, \* result of the last get_version_messages call
    path,               \* the path parameter of the dynamic route, by characters
    function_name,      \* _extract_function_name(path) (<<>> = not yet called)
    stream,             \* the stream argument of the dynamic request
    result,             \* what execute_function gives for the request
    analytics,          \* RestServer.analytics is set
    hpc,                \* position of _handle_dynamic_request and of the
                        \*   response's iterator
    start_time,         \* start_time of the handler, then of the generator
    token_count,        \* token_count of the handler, then of the generator
    http_response,      \* the response returned ("raised": an exception)
    api_calls,          \* history: the analytics.track_api_call calls
    error_calls,        \* history: number of analytics.track_error calls
    raw_generator,      \* the items raw_generator has yet to yield
    frames,             \* history: the SSE frames sent
    kwargs,             \* the arguments of the dynamic request
    handler_timeout,    \* timeout of _handle_dynamic_request
    timeout_arg,        \* history: the timeout argument of the request
    tpc,                \* position of the request whose timeout is followed
    default_timeout,    \* SimpleWorkerPool.default_timeout
    effective_timeout,  \* history: the time submit_request waits
    function_kwargs     \* history: the keywords the function was called with

poolVars == <<n_workers, max_queue_size, request_queue, processing_count,
              timeout_count, running, wpc, wjob, sd_pc, sd_i>>
reqVars == <<spc, sres, rhandle, completions, fval>>
histVars == <<pending_order, at_check>>
svcVars == <<worker_pool, current_model, worker_backends, start_result,
             svc_pc, n_starts>>
gwVars == <<api_key, gpc, route, hdr, fname, http, detail, requests_processed>>
monVars == <<now, shutdown_check_interval, shutdown_timeout, rest_server,
             n_servers, mgr_pc, server_alive, mon_pc, next_check, shutdown_event,
             last_idle_time, consecutive_idle_checks, shutdown_attempted,
             host_shutdowns, started_at, last_busy, consecutive_errors>>
manVars == <<_manifest, cache_file, load_result, load_source, cached_doc,
             current_version, applicable_messages>>
respVars == <<stream, result, analytics, hpc, start_time, token_count,
              http_response, api_calls, error_calls, raw_generator, frames>>
toVars == <<kwargs, handler_timeout, timeout_arg, tpc, default_timeout,
            effective_timeout, function_kwargs>>
auxVars == <<manVars, path, function_name, respVars, toVars>>
extVars == <<gwVars, monVars, auxVars>>
vars == <<poolVars, reqVars, histVars, snap, svcVars, extVars>>

Workers == 1..n_workers

(* ----------------------- queue.Queue(maxsize) -------------------------- *)
(* Mutant of Full: the bound compared with > instead of >=.                *)
FullOffByOne(q) == max_queue_size > 0 /\ Len(q) > max_queue_size

(* Queue.full(): 0 < maxsize <= qsize; a maxsize <= 0 queue is never full. *)
Full(q) == max_queue_size > 0 /\ Len(q) >= max_queue_size

(* ------------------------- InferenceService ---------------------------- *)
_get_next_backend == IF worker_backends = <<>> THEN None ELSE worker_backends[1]

IsRunning == worker_pool /\ current_model # "None"

(* The function names a request path can carry: a capability the manifest  *)
(* declares and the backend module defines, a module-level name the        *)
(* manifest does not declare, and a name the module does not have.         *)
FunctionNames == {"caption", "init_backend", "missing"}

(* BackendInfo.functions of the model's backend.                           *)
DeclaredFunctions == {"caption"}

(* Mutant of hasattr: every name counts as an attribute.                   *)
hasattrAny(backend, name) == name \in FunctionNames

(* The attributes of a loaded worker module: its capability functions and  *)
(* its other module-level names (create_worker_backend calls its           *)
(* init_backend).                                                          *)
ModuleAttributes == {"caption", "init_backend"}

(* hasattr(backend, function_name) on a loaded worker module.              *)
hasattr(backend, name) == name \in ModuleAttributes

(* execute_function up to the hand-over to the executor thread.  Request   *)
(* ids number the calls in the order they are made.  The gateway serves    *)
(* requests only while no start() is in progress (RestServer.start runs    *)
(* before the server thread exists).                                       *)
Execute(r) ==
    /\ spc[r] = "idle"
    /\ gpc[r] = "exec"
    /\ svc_pc \notin {"start_sd", "start_load"}
    /\ \A x \in Reqs : x < r => spc[x] # "idle"
    /\ IF ~worker_pool \/ worker_backends = <<>>
         THEN /\ spc' = [spc EXCEPT ![r] = "done"]
              /\ sres' = [sres EXCEPT ![r] = "not_started"]
              /\ UNCHANGED rhandle
         ELSE IF _get_next_backend = None
                 \/ ~hasattr(_get_next_backend, fname[r])
         THEN /\ spc' = [spc EXCEPT ![r] = "done"]
              /\ sres' = [sres EXCEPT ![r] = "unavailable"]
              /\ UNCHANGED rhandle
         ELSE /\ spc' = [spc EXCEPT ![r] = "submit"]
              /\ rhandle' = [rhandle EXCEPT ![r] = _get_next_backend]
              /\ UNCHANGED sres
    /\ UNCHANGED <<poolVars, completions, fval, histVars, snap, svcVars,
                   extVars>>

(* ---------------------- SimpleWorkerPool.submit_request ---------------- *)
Executing == {wjob[w] : w \in {x \in Workers : wpc[x] = "run"}}

(* submit_with_kwargs reads self.worker_pool (None raises AttributeError), *)
(* then: if self.request_queue.full(): return rejected                     *)
SubmitFullCheck(r) ==
    /\ spc[r] = "submit"
    /\ IF ~worker_pool
         THEN /\ spc' = [spc EXCEPT ![r] = "done"]
              /\ sres' = [sres EXCEPT ![r] = "raised"]
         ELSE IF Full(request_queue)
         THEN /\ spc' = [spc EXCEPT ![r] = "done"]
              /\ sres' = [sres EXCEPT ![r] = "rejected"]
         ELSE /\ spc' = [spc EXCEPT ![r] = "put"]
              /\ UNCHANGED sres
    /\ UNCHANGED <<poolVars, rhandle, completions, fval, pending_order, snap,
                   svcVars, extVars>>

(* result_future = Future(); request_queue.put(item, block=False);         *)
(* except queue.Full: return rejected                                      *)
SubmitPut(r) ==
    /\ spc[r] = "put"
    /\ IF Full(request_queue)
         THEN /\ spc' = [spc EXCEPT ![r] = "done"]
              /\ sres' = [sres EXCEPT ![r] = "rejected"]
              /\ UNCHANGED <<request_queue, pending_order>>
         ELSE /\ request_queue' = Append(request_queue, r)
              /\ pending_order' = Append(pending_order, r)
              /\ spc' = [spc EXCEPT ![r] = "wait"]
              /\ UNCHANGED sres
    /\ UNCHANGED <<n_workers, max_queue_size, processing_count, timeout_count,
                   running, wpc, wjob, sd_pc, sd_i, rhandle, completions, fval,
                   at_check, snap, svcVars, extVars>>

(* result_future.result(timeout) returns the future's value                *)
SubmitResult(r) ==
    /\ spc[r] = "wait"
    /\ completions[r] > 0
    /\ spc' = [spc EXCEPT ![r] = "done"]
    /\ sres' = [sres EXCEPT ![r] = fval[r]]
    /\ UNCHANGED <<poolVars, rhandle, completions, fval, histVars, snap, svcVars,
                   extVars>>

(* Mutant of SubmitTimeout: the timeout also withdraws the job from the    *)
(* queue.                                                                  *)
SubmitTimeoutCancels(r) ==
    /\ spc[r] = "wait"
    /\ completions[r] = 0
    /\ timeout_count' = timeout_count + 1
    /\ request_queue' = SelectSeq(request_queue, LAMBDA y : y # r)
    /\ pending_order' = SelectSeq(pending_order, LAMBDA y : y # r)
    /\ spc' = [spc EXCEPT ![r] = "done"]
    /\ sres' = [sres EXCEPT ![r] = "timeout"]
    /\ UNCHANGED <<n_workers, max_queue_size, processing_count,
                   running, wpc, wjob, sd_pc, sd_i, rhandle, completions, fval,
                   at_check, snap, svcVars, extVars>>

(* FutureTimeoutError: with self._lock: timeout_count += 1; return timeout *)
SubmitTimeout(r) ==
    /\ spc[r] = "wait"
    /\ completions[r] = 0
    /\ timeout_count' = timeout_count + 1
    /\ spc' = [spc EXCEPT ![r] = "done"]
    /\ sres' = [sres EXCEPT ![r] = "timeout"]
    /\ UNCHANGED <<n_workers, max_queue_size, request_queue, processing_count,
                   running, wpc, wjob, sd_pc, sd_i, rhandle, completions, fval,
                   histVars, snap, svcVars, extVars>>

(* -------------------------- SimpleWorkerPool._worker ------------------- *)
(* while self._running:                                                    *)
WorkerLoop(w) ==
    /\ wpc[w] = "loop"
    /\ wpc' = [wpc EXCEPT ![w] = IF running THEN "get" ELSE "exited"]
    /\ UNCHANGED <<n_workers, max_queue_size, request_queue, processing_count,
                   timeout_count, running, wjob, sd_pc, sd_i, reqVars, histVars,
                   snap, svcVars, extVars>>

(* Mutant of QueueGet: the newest item is taken (a LIFO).                  *)
QueueGetLifo(q) == [item |-> q[Len(q)], rest |-> SubSeq(q, 1, Len(q) - 1)]

(* Queue.get on a non-empty queue: the item it returns and the queue it    *)
(* leaves (queue.Queue is a FIFO: popleft).                                *)
QueueGet(q) == [item |-> Head(q), rest |-> Tail(q)]

Remove(seq, x) == SelectSeq(seq, LAMBDA y : y # x)

(* request_item = self.request_queue.get(timeout=1.0); None: break;        *)
(* queue.Empty: continue                                                   *)
WorkerGet(w) ==
    /\ wpc[w] = "get"
    /\ IF request_queue = <<>>
         THEN /\ wpc' = [wpc EXCEPT ![w] = "loop"]
              /\ UNCHANGED <<request_queue, wjob, pending_order>>
         ELSE /\ request_queue' = QueueGet(request_queue).rest
              /\ IF QueueGet(request_queue).item = None
                   THEN /\ wpc' = [wpc EXCEPT ![w] = "exited"]
                        /\ UNCHANGED <<wjob, pending_order>>
                   ELSE /\ wpc' = [wpc EXCEPT ![w] = "got"]
                        /\ wjob' = [wjob EXCEPT ![w] = QueueGet(request_queue).item]
                        /\ pending_order' = Remove(pending_order,
                                                   QueueGet(request_queue).item)
    /\ UNCHANGED <<n_workers, max_queue_size, processing_count, timeout_count,
                   running, sd_pc, sd_i, reqVars, at_check, snap, svcVars,
                   extVars>>

(* with self._lock: self.processing_count += 1                             *)
WorkerBegin(w) ==
    /\ wpc[w] = "got"
    /\ processing_count' = processing_count + 1
    /\ wpc' = [wpc EXCEPT ![w] = "run"]
    /\ UNCHANGED <<n_workers, max_queue_size, request_queue, timeout_count,
                   running, wjob, sd_pc, sd_i, reqVars, histVars, snap, svcVars,
                   extVars>>

(* result = function(kwargs); result_future.set_result(...): the function  *)
(* returns (ok = TRUE) or raises an Exception (ok = FALSE)                 *)
WorkerRun(w, ok) ==
    /\ wpc[w] = "run"
    /\ completions' = [completions EXCEPT ![wjob[w]] = @ + 1]
    /\ fval' = [fval EXCEPT ![wjob[w]] = IF ok THEN "ok" ELSE "error"]
    /\ wpc' = [wpc EXCEPT ![w] = "fin"]
    /\ UNCHANGED <<n_workers, max_queue_size, request_queue, processing_count,
                   timeout_count, running, wjob, sd_pc, sd_i, spc, sres, rhandle,
                   histVars, snap, svcVars, extVars>>

(* Mutant of WorkerFinish: the exception leaves the loop (no except), the  *)
(* worker thread ends.                                                     *)
WorkerFinishDies(w) ==
    /\ wpc[w] = "fin"
    /\ processing_count' = processing_count - 1
    /\ wpc' = [wpc EXCEPT ![w] = IF fval[wjob[w]] = "error" THEN "exited"
                                                            ELSE "loop"]
    /\ wjob' = [wjob EXCEPT ![w] = None]
    /\ UNCHANGED <<n_workers, max_queue_size, request_queue, timeout_count,
                   running, sd_pc, sd_i, reqVars, histVars, snap, svcVars,
                   extVars>>

(* Mutant of WorkerFinish: the decrement is skipped when the function      *)
(* raised (no finally).                                                    *)
WorkerFinishNoFinally(w) ==
    /\ wpc[w] = "fin"
    /\ processing_count' = IF fval[wjob[w]] = "error" THEN processing_count
                           ELSE processing_count - 1
    /\ wpc' = [wpc EXCEPT ![w] = "loop"]
    /\ wjob' = [wjob EXCEPT ![w] = None]
    /\ UNCHANGED <<n_workers, max_queue_size, request_queue, timeout_count,
                   running, sd_pc, sd_i, reqVars, histVars, snap, svcVars,
                   extVars>>

(* finally: with self._lock: self.processing_count -= 1; task_done()       *)
WorkerFinish(w) ==
    /\ wpc[w] = "fin"
    /\ processing_count' = processing_count - 1
    /\ wpc' = [wpc EXCEPT ![w] = "loop"]
    /\ wjob' = [wjob EXCEPT ![w] = None]
    /\ UNCHANGED <<n_workers, max_queue_size, request_queue, timeout_count,
                   running, sd_pc, sd_i, reqVars, histVars, snap, svcVars,
                   extVars>>

(* -------------------------- SimpleWorkerPool.shutdown ------------------ *)
(* self._running = False                                                   *)
ShutdownBegin ==
    /\ running' = FALSE
    /\ sd_pc' = "poison"
    /\ sd_i' = 0
    /\ UNCHANGED <<n_workers, max_queue_size, request_queue, processing_count,
                   timeout_count, wpc, wjob, reqVars, histVars, snap,
                   worker_pool, current_model, worker_backends, start_result,
                   n_starts, extVars>>

(* shutdown() called on the pool by its owner                              *)
ShutdownFlag ==
    /\ sd_pc = "idle"
    /\ svc_pc = "idle"
    /\ worker_pool
    /\ ShutdownBegin
    /\ UNCHANGED svc_pc

(* for _ in range(n_workers): put(None, block=False) / except Full: pass   *)
ShutdownPoison ==
    /\ sd_pc = "poison"
    /\ sd_i < n_workers
    /\ request_queue' = IF Full(request_queue) THEN request_queue
                        ELSE Append(request_queue, None)
    /\ sd_i' = sd_i + 1
    /\ UNCHANGED <<n_workers, max_queue_size, processing_count, timeout_count,
                   running, wpc, wjob, sd_pc, reqVars, histVars, snap, svcVars,
                   extVars>>

(* The threads ThreadPoolExecutor.shutdown(wait=True) joins: nothing is    *)
(* ever submitted to the executor, so it has no threads; the workers are   *)
(* plain daemon threading.Thread objects.                                  *)
ExecutorThreads == {}

(* self.executor.shutdown(wait=True)                                       *)
ShutdownJoin ==
    /\ sd_pc = "poison"
    /\ sd_i = n_workers
    /\ \A w \in ExecutorThreads : wpc[w] = "exited"
    /\ sd_pc' = "returned"
    /\ UNCHANGED <<n_workers, max_queue_size, request_queue, processing_count,
                   timeout_count, running, wpc, wjob, sd_i, reqVars, histVars,
                   snap, svcVars, extVars>>

(* -------------------------- SimpleWorkerPool.get_stats ----------------- *)
(* An accepted request whose job has not finished yet.                     *)
Accepted(r) == spc[r] = "wait" \/ sres[r] \in {"ok", "error", "timeout"}
JobPending == \E r \in Reqs : Accepted(r) /\ completions[r] = 0

(* with self._lock: {queue_size: qsize(), processing: processing_count}.   *)
(* processing_count cannot change while _lock is held, so the pair is the  *)
(* pair of values at the instant qsize() is read.  pending is history: was *)
(* a job pending at that instant.                                          *)
get_stats == [queue_size |-> Len(request_queue),
              processing |-> processing_count,
              pending |-> JobPending]

Stats ==
    /\ worker_pool
    /\ snap' = get_stats
    /\ UNCHANGED <<poolVars, reqVars, histVars, svcVars, extVars>>

NoSnap == [queue_size |-> 0, processing |-> 0, pending |-> FALSE]

(* InferenceService.get_stats: {"status": "stopped"} without a pool, else   *)
(* the pool's stats plus model and status.                                 *)
InferenceService_get_stats ==
    IF ~worker_pool
      THEN [status |-> "stopped"]
      ELSE [status |-> "running",
            model |-> current_model,
            queue_size |-> get_stats.queue_size,
            processing |-> get_stats.processing]

(* ------------------------------ Init ----------------------------------- *)
(* SimpleWorkerPool.__init__ with n_workers = n, max_queue_size = q.       *)
PoolInit(n, q) ==
    /\ n_workers = n
    /\ max_queue_size = q
    /\ request_queue = <<>>
    /\ processing_count = 0
    /\ timeout_count = 0
    /\ running = TRUE
    /\ wpc = [w \in WorkerIds |-> IF w <= n THEN "loop" ELSE "absent"]
    /\ wjob = [w \in WorkerIds |-> None]
    /\ sd_pc = "idle"
    /\ sd_i = 0

ReqInit ==
    /\ spc = [r \in Reqs |-> "idle"]
    /\ sres = [r \in Reqs |-> "none"]
    /\ rhandle = [r \in Reqs |-> None]
    /\ completions = [r \in Reqs |-> 0]
    /\ fval = [r \in Reqs |-> "none"]
    /\ pending_order = <<>>
    /\ at_check = [r \in Reqs |-> {}]
    /\ snap = NoSnap

(* =========================== ManifestManager =========================== *)
(* A Python value read from JSON, [t, x]: None ("null", x = <<>>), a str   *)
(* ("str"), a list ("arr", the sequence of its items), a dict ("obj",      *)
(* the sequence of its <<key, value>> pairs in insertion order).           *)
J(t, x) == [t |-> t, x |-> x]

(* JSON text as the sequence of its tokens [k, x]: a punctuation mark or   *)
(* literal ("punct"), a string ("string").  White space, the indent=2 of   *)
(* _save_to_cache included, separates tokens and is not kept.              *)
Tok(k, x) == [k |-> k, x |-> x]

RECURSIVE JsonDump(_)
RECURSIVE DumpItems(_)
RECURSIVE DumpMembers(_)

(* Mutant of DumpMembers: only the first member of an object is written.   *)
DumpFirstMember(kv) ==
    IF Len(kv) = 0 THEN <<>>
    ELSE <<Tok("string", kv[1][1]), Tok("punct", ":")>> \o JsonDump(kv[1][2])

(* json.dump(data, f, indent=2): the members of a dict, in its order.      *)
DumpMembers(kv) ==
    IF Len(kv) = 0 THEN <<>>
    ELSE <<Tok("string", kv[1][1]), Tok("punct", ":")>> \o JsonDump(kv[1][2])
         \o (IF Len(kv) = 1 THEN <<>>
             ELSE <<Tok("punct", ",")>> \o DumpMembers(Tail(kv)))

(* json.dump: the items of a list.                                         *)
DumpItems(a) ==
    IF Len(a) = 0 THEN <<>>
    ELSE JsonDump(a[1])
         \o (IF Len(a) = 1 THEN <<>>
             ELSE <<Tok("punct", ",")>> \o DumpItems(Tail(a)))

JsonDump(v) ==
    CASE v.t = "null" -> <<Tok("punct", "null")>>
      [] v.t = "str"  -> <<Tok("string", v.x)>>
      [] v.t = "arr"  -> <<Tok("punct", "[")>> \o DumpItems(v.x)
                         \o <<Tok("punct", "]")>>
      [] v.t = "obj"  -> <<Tok("punct", "{")>> \o DumpMembers(v.x)
                         \o <<Tok("punct", "}")>>

(* json.load: a recursive-descent parse of a token sequence.  The result   *)
(* is [ok, v, rest]; ok = FALSE stands for json.JSONDecodeError.           *)
JsonError == [ok |-> FALSE, v |-> J("null", <<>>), rest |-> <<>>]

HasKey(kv, key) == \E i \in 1..Len(kv) : kv[i][1] = key

GetKey(kv, key) == kv[CHOOSE i \in 1..Len(kv) : kv[i][1] = key][2]

RECURSIVE JsonValue(_)
RECURSIVE JsonItems(_, _)
RECURSIVE JsonMembers(_, _)

JsonItems(toks, acc) ==
    LET item == JsonValue(toks) IN
    IF ~item.ok \/ Len(item.rest) = 0 THEN JsonError
    ELSE IF Head(item.rest) = Tok("punct", "]")
      THEN [ok |-> TRUE, v |-> J("arr", Append(acc, item.v)),
            rest |-> Tail(item.rest)]
    ELSE IF Head(item.rest) = Tok("punct", ",")
      THEN JsonItems(Tail(item.rest), Append(acc, item.v))
    ELSE JsonError

(* dict[key] = value: a key already present keeps its place and takes the  *)
(* new value.                                                              *)
JsonMembers(toks, acc) ==
    IF Len(toks) < 3 \/ toks[1].k # "string" \/ toks[2] # Tok("punct", ":")
      THEN JsonError
    ELSE LET member == JsonValue(SubSeq(toks, 3, Len(toks)))
             key == toks[1].x
             dict == IF HasKey(acc, key)
                       THEN [i \in 1..Len(acc) |->
                               IF acc[i][1] = key THEN <<key, member.v>>
                                                  ELSE acc[i]]
                       ELSE Append(acc, <<key, member.v>>)
         IN IF ~member.ok \/ Len(member.rest) = 0 THEN JsonError
            ELSE IF Head(member.rest) = Tok("punct", "}")
              THEN [ok |-> TRUE, v |-> J("obj", dict), rest |-> Tail(member.rest)]
            ELSE IF Head(member.rest) = Tok("punct", ",")
              THEN JsonMembers(Tail(member.rest), dict)
            ELSE JsonError

JsonValue(toks) ==
    IF Len(toks) = 0 THEN JsonError
    ELSE LET h == Head(toks)
             r == Tail(toks)
         IN CASE h.k = "string" -> [ok |-> TRUE, v |-> J("str", h.x), rest |-> r]
              [] h = Tok("punct", "null") ->
                   [ok |-> TRUE, v |-> J("null", <<>>), rest |-> r]
              [] h = Tok("punct", "[") ->
                   IF Len(r) > 0 /\ Head(r) = Tok("punct", "]")
                     THEN [ok |-> TRUE, v |-> J("arr", <<>>), rest |-> Tail(r)]
                     ELSE JsonItems(r, <<>>)
              [] h = Tok("punct", "{") ->
                   IF Len(r) > 0 /\ Head(r) = Tok("punct", "}")
                     THEN [ok |-> TRUE, v |-> J("obj", <<>>), rest |-> Tail(r)]
                     ELSE JsonMembers(r, <<>>)
              [] OTHER -> JsonError

(* json.load(f): one value and nothing after it.                           *)
JsonLoad(text) ==
    LET p == JsonValue(text) IN
    IF p.ok /\ Len(p.rest) = 0 THEN p ELSE JsonError

(* ---- pydantic models of manifest.py ----                                *)
(* A model built from a dict is <<object>>, or <<>> when the construction  *)
(* raises ValidationError: a required field is missing or a value is not   *)
(* of the field's type.  A key no field has is ignored.                    *)
StrFields(o, required) ==
    /\ o.t = "obj"
    /\ \A key \in required : HasKey(o.x, key) /\ GetKey(o.x, key).t = "str"

(* BackendInfo: name, download_url, entry_module, functions.  version and  *)
(* min_version keep their defaults in every document of Docs.              *)
BackendInfo(o) ==
    IF /\ StrFields(o, {"name", "download_url", "entry_module"})
       /\ HasKey(o.x, "functions")
       /\ GetKey(o.x, "functions").t = "arr"
       /\ \A i \in 1..Len(GetKey(o.x, "functions").x) :
             GetKey(o.x, "functions").x[i].t = "str"
      THEN <<[name |-> GetKey(o.x, "name").x,
              download_url |-> GetKey(o.x, "download_url").x,
              entry_module |-> GetKey(o.x, "entry_module").x,
              functions |-> [i \in 1..Len(GetKey(o.x, "functions").x) |->
                               GetKey(o.x, "functions").x[i].x],
              version |-> "1.0.0"]>>
      ELSE <<>>

(* ModelInfo: name, description, backend.  version, args, is_default,      *)
(* supported_os and system_requirements keep their defaults in every       *)
(* document of Docs.                                                       *)
ModelInfo(o) ==
    IF StrFields(o, {"name", "description", "backend"})
      THEN <<[name |-> GetKey(o.x, "name").x,
              description |-> GetKey(o.x, "description").x,
              backend |-> GetKey(o.x, "backend").x,
              version |-> "1.0.0"]>>
      ELSE <<>>

(* ManifestData: version, models, backends, version_messages; dicts are    *)
(* functions.  The class declares field types and no validator: nothing    *)
(* relates ModelInfo.backend to the keys of backends.  The optional fields *)
(* keep their defaults in every document of Docs (version_messages: None,  *)
(* written <<>>).                                                          *)
ManifestData(data) ==
    IF /\ StrFields(data, {"version"})
       /\ HasKey(data.x, "models") /\ GetKey(data.x, "models").t = "obj"
       /\ \A i \in 1..Len(GetKey(data.x, "models").x) :
             ModelInfo(GetKey(data.x, "models").x[i][2]) # <<>>
       /\ HasKey(data.x, "backends") /\ GetKey(data.x, "backends").t = "obj"
       /\ \A i \in 1..Len(GetKey(data.x, "backends").x) :
             BackendInfo(GetKey(data.x, "backends").x[i][2]) # <<>>
      THEN LET models == GetKey(data.x, "models").x
               backends == GetKey(data.x, "backends").x
           IN <<[version |-> GetKey(data.x, "version").x,
                 models |-> [id \in {models[i][1] : i \in 1..Len(models)} |->
                               ModelInfo(GetKey(models, id))[1]],
                 backends |-> [id \in {backends[i][1] : i \in 1..Len(backends)} |->
                               BackendInfo(GetKey(backends, id))[1]],
                 version_messages |-> <<>>]>>
      ELSE <<>>

(* ---- the documents a manifest source can hold ----                      *)
(* A manifest with one model "m" on the given backend id and one backend   *)
(* "b".                                                                    *)
Doc(version, backend) ==
    J("obj",
      << <<"version", J("str", version)>>,
         <<"models", J("obj", << <<"m",
              J("obj", << <<"name", J("str", "m")>>,
                          <<"description", J("str", "d")>>,
                          <<"backend", J("str", backend)>> >>)>> >>)>>,
         <<"backends", J("obj", << <<"b",
              J("obj", << <<"name", J("str", "b")>>,
                          <<"download_url", J("str", "u")>>,
                          <<"entry_module", J("str", "e")>>,
                          <<"functions", J("arr", <<J("str", "caption")>>)>>
                       >>)>> >>)>> >>)

(* A manifest whose keys come in another order, with a key no field has    *)
(* and no model.                                                           *)
DocReordered ==
    J("obj", << <<"extra", J("null", <<>>)>>,
                <<"backends", GetKey(Doc("2", "b").x, "backends")>>,
                <<"models", J("obj", <<>>)>>,
                <<"version", J("str", "2")>> >>)

(* Two manifests, a manifest whose model names a backend that is not       *)
(* listed, and JSON that is no manifest: no models, a list, null.          *)
Docs == {Doc("1", "b"), DocReordered, Doc("3", "x"),
         J("obj", << <<"version", J("str", "5")>> >>),
         J("arr", <<>>), J("null", <<>>)}

(* requests.get(...), raise_for_status() and response.json(): an error     *)
(* status or no connection; a body that is no JSON (json is <<>>); a body  *)
(* that response.json() parses to the document in json.                    *)
Responses ==
    {[status |-> "error", json |-> <<>>], [status |-> "ok", json |-> <<>>]}
    \cup {[status |-> "ok", json |-> <<d>>] : d \in Docs}

NoFile == [exists |-> FALSE, text |-> <<>>]

(* A local path: no file, the text of a document, a text that repeats a    *)
(* key, a text cut short.                                                  *)
LocalFiles ==
    {NoFile}
    \cup {[exists |-> TRUE, text |-> JsonDump(d)] : d \in Docs}
    \cup {[exists |-> TRUE,
           text |-> <<Tok("punct", "{"), Tok("string", "version"),
                      Tok("punct", ":"), Tok("string", "0"),
                      Tok("punct", ",")>> \o Tail(JsonDump(Doc("1", "b")))],
          [exists |-> TRUE, text |-> SubSeq(JsonDump(Doc("1", "b")), 1, 5)]}

(* ---- ManifestManager ----                                               *)
NoManifest == [none |-> TRUE]

(* _save_to_cache(data): the file after json.dump(data, f, indent=2).      *)
_save_to_cache(data) == [exists |-> TRUE, text |-> JsonDump(data)]

(* _load_from_cache(): the parsed file; None without a file or when the    *)
(* read raises.                                                            *)
_load_from_cache ==
    IF cache_file.exists /\ JsonLoad(cache_file.text).ok
      THEN JsonLoad(cache_file.text).v
      ELSE J("null", <<>>)

(* self._manifest = ManifestData(data): a data that is no dict raises      *)
(* TypeError, a dict that fails validation raises ValidationError, and     *)
(* the assignment does not happen.                                         *)
Construct(data) ==
    IF ManifestData(data) # <<>>
      THEN /\ _manifest' = ManifestData(data)[1]
           /\ load_result' = "ok"
      ELSE /\ load_result' = IF data.t = "obj" THEN "ValidationError"
                                               ELSE "TypeError"
           /\ UNCHANGED _manifest

(* load_manifest(source) for an http(s) source.  Any exception of the      *)
(* try block (the request, the status, the body's JSON) leads to the       *)
(* cache; without cached data the exception is re-raised.                  *)
LoadHttp(response) ==
    LET fetched == response.status = "ok" /\ Len(response.json) = 1
        data == IF fetched THEN response.json[1] ELSE _load_from_cache
    IN /\ cache_file' = IF fetched THEN _save_to_cache(data) ELSE cache_file
       /\ cached_doc' = IF fetched THEN data ELSE cached_doc
       /\ IF ~fetched /\ data.t = "null"
            THEN /\ load_source' = "no_cache_available"
                 /\ load_result' = "RequestException"
                 /\ UNCHANGED _manifest
            ELSE /\ load_source' = IF fetched THEN "fresh_fetch"
                                              ELSE "cache_fallback"
                 /\ Construct(data)
       /\ UNCHANGED <<poolVars, reqVars, histVars, snap, svcVars, gwVars,
                      monVars, current_version, applicable_messages, path,
                      function_name, respVars, toVars>>

(* load_manifest(source) for a local path: open and json.load.             *)
LoadLocal(file) ==
    /\ load_source' = "local_file"
    /\ IF ~file.exists
         THEN load_result' = "FileNotFoundError" /\ UNCHANGED _manifest
         ELSE IF ~JsonLoad(file.text).ok
         THEN load_result' = "JSONDecodeError" /\ UNCHANGED _manifest
         ELSE Construct(JsonLoad(file.text).v)
    /\ UNCHANGED <<poolVars, reqVars, histVars, snap, svcVars, gwVars,
                   monVars, cache_file, cached_doc, current_version,
                   applicable_messages, path, function_name, respVars,
                   toVars>>

(* ---- get_version_messages ----                                          *)
(* A version string is the sequence of its characters.                     *)
DigitChars == <<"0", "1", "2", "3", "4", "5", "6", "7", "8", "9">>

RECURSIVE Strip(_)
(* str.strip(): leading and trailing blanks removed.                       *)
Strip(s) ==
    IF Len(s) > 0 /\ Head(s) = " " THEN Strip(Tail(s))
    ELSE IF Len(s) > 0 /\ s[Len(s)] = " " THEN Strip(SubSeq(s, 1, Len(s) - 1))
    ELSE s

RECURSIVE ParseRelease(_, _, _)
(* The release segment of a version: numbers separated by dots.  cur is    *)
(* the number being read (-1: none yet); <<-1>> stands for InvalidVersion. *)
ParseRelease(s, cur, acc) ==
    IF Len(s) = 0
      THEN IF cur = -1 THEN <<-1>> ELSE Append(acc, cur)
    ELSE IF Head(s) = "."
      THEN IF cur = -1 THEN <<-1>>
           ELSE ParseRelease(Tail(s), -1, Append(acc, cur))
    ELSE IF \E d \in 1..10 : DigitChars[d] = Head(s)
      THEN ParseRelease(Tail(s),
                        (IF cur = -1 THEN 0 ELSE 10 * cur)
                          + (CHOOSE d \in 1..10 : DigitChars[d] = Head(s)) - 1,
                        acc)
    ELSE <<-1>>

RECURSIVE TrimZeros(_)
(* Version._key: the release without its trailing zeros.                   *)
TrimZeros(release) ==
    IF Len(release) > 0 /\ release[Len(release)] = 0
      THEN TrimZeros(SubSeq(release, 1, Len(release) - 1))
      ELSE release

(* packaging.version.Version(s) of a release-only version, as its          *)
(* comparison key (blanks around the version are allowed).                 *)
Version(s) == TrimZeros(ParseRelease(Strip(s), -1, <<>>))

RECURSIVE VersionLessByText(_, _)
(* Mutant of VersionLess: the digits of a component compared one by one,   *)
(* as in a comparison of the version strings.                              *)
VersionLessByText(a, b) ==
    IF Len(b) = 0 THEN FALSE
    ELSE IF Len(a) = 0 THEN TRUE
    ELSE IF a[1] # b[1]
      THEN (IF a[1] >= 10 THEN a[1] \div 10 ELSE a[1])
             < (IF b[1] >= 10 THEN b[1] \div 10 ELSE b[1])
    ELSE VersionLessByText(Tail(a), Tail(b))

RECURSIVE VersionLess(_, _)
(* Version.__lt__: the keys compared as tuples.                            *)
VersionLess(a, b) ==
    IF Len(b) = 0 THEN FALSE
    ELSE IF Len(a) = 0 THEN TRUE
    ELSE IF a[1] # b[1] THEN a[1] < b[1]
    ELSE VersionLess(Tail(a), Tail(b))

(* The loop body of get_version_messages: <<matches>>, or <<>> when        *)
(* Version(...) raises InvalidVersion.                                     *)
Matches(version_spec, current) ==
    LET startswith(p) == Len(version_spec) >= Len(p)
                         /\ SubSeq(version_spec, 1, Len(p)) = p
        rest(n) == SubSeq(version_spec, n + 1, Len(version_spec))
        target == IF startswith(<<"<">>) \/ startswith(<<">">>)
                    THEN Version(Strip(rest(1)))
                  ELSE IF startswith(<<"=", "=">>) THEN Version(Strip(rest(2)))
                  ELSE Version(version_spec)
    IN IF target = <<-1>> THEN <<>>
       ELSE IF startswith(<<"<">>) THEN <<VersionLess(current, target)>>
       ELSE IF startswith(<<">">>) THEN <<VersionLess(target, current)>>
       ELSE <<current = target>>

(* get_version_messages(current): [] without a manifest or advisories;     *)
(* otherwise the advisories whose predicate matches, in their order.  An   *)
(* InvalidVersion of the current version or of any predicate ends the      *)
(* call.                                                                   *)
GetVersionMessages(current) ==
    LET list == IF _manifest = NoManifest \/ _manifest.version_messages = <<>>
                  THEN <<>>
                  ELSE _manifest.version_messages[1]
    IN /\ current_version' = current
       /\ applicable_messages' =
            IF Len(list) = 0 THEN [raised |-> FALSE, messages |-> <<>>]
            ELSE IF \/ Version(current) = <<-1>>
                    \/ \E i \in 1..Len(list) :
                          Matches(list[i].version, Version(current)) = <<>>
              THEN [raised |-> TRUE, messages |-> <<>>]
            ELSE [raised |-> FALSE,
                  messages |-> SelectSeq(list, LAMBDA m :
                                 Matches(m.version, Version(current))[1])]
       /\ UNCHANGED <<poolVars, reqVars, histVars, snap, svcVars, gwVars,
                      monVars, _manifest, cache_file, load_result,
                      load_source, cached_doc, path, function_name,
                      respVars, toVars>>

(* ---- the advisories a manifest can hold ----                            *)
RECURSIVE ReleaseText(_)
(* The text of a release: its numbers (below 100) joined by dots.          *)
ReleaseText(release) ==
    LET n == release[1]
        digits == IF n < 10 THEN <<DigitChars[n + 1]>>
                  ELSE <<DigitChars[(n \div 10) + 1], DigitChars[(n % 10) + 1]>>
    IN IF Len(release) = 1 THEN digits
       ELSE digits \o <<".">> \o ReleaseText(Tail(release))

Versions == {<<1, 2, 2>>, <<1, 2, 3>>, <<1, 2, 4>>, <<1, 10>>, <<1, 2, 3, 0>>}

(* A VersionMessage whose version is the operator followed by the target   *)
(* (after a blank when spaced); its message records the two.               *)
Advisory(op, target, spaced) ==
    [version |-> op \o (IF spaced THEN <<" ">> ELSE <<>>) \o ReleaseText(target),
     severity |-> "info",
     message |-> [op |-> op, target |-> target]]

(* Predicates of the four forms on every target, a predicate with a blank  *)
(* after its operator and a predicate with an operator the code does not   *)
(* know.                                                                   *)
Advisories ==
    {Advisory(op, target, FALSE) :
        op \in {<<"<">>, <<">">>, <<"=", "=">>, <<>>}, target \in Versions}
    \cup {Advisory(<<"<">>, <<1, 2, 4>>, TRUE),
          Advisory(<<"<", "=">>, <<1, 2, 3>>, FALSE)}

(* A ManifestManager that holds the given manifest; no process has        *)
(* written the cache file and get_version_messages was not called.         *)
ManifestInit(manifest) ==
    /\ _manifest = manifest
    /\ cache_file = NoFile
    /\ load_result = "none"
    /\ load_source = "none"
    /\ cached_doc = J("null", <<>>)
    /\ current_version = <<>>
    /\ applicable_messages = [raised |-> FALSE, messages |-> <<>>]

(* ---- RestServer._extract_function_name ----                             *)
RECURSIVE Split(_, _, _)
(* str.split("/"): the pieces between slashes, empty pieces included.      *)
(* cur is the piece being read.                                            *)
Split(s, cur, acc) ==
    IF Len(s) = 0 THEN Append(acc, cur)
    ELSE IF Head(s) = "/" THEN Split(Tail(s), <<>>, Append(acc, cur))
    ELSE Split(Tail(s), Append(cur, Head(s)), acc)

(* Mutant of _extract_function_name: the v1 prefix is not looked at.       *)
ExtractLastPart(p) ==
    LET path_parts == SelectSeq(Split(p, <<>>, <<>>), LAMBDA part : Len(part) > 0)
    IN IF Len(path_parts) > 0 THEN path_parts[Len(path_parts)]
       ELSE <<"i", "n", "d", "e", "x">>

_extract_function_name(p) ==
    LET path_parts == SelectSeq(Split(p, <<>>, <<>>), LAMBDA part : Len(part) > 0)
    IN IF Len(path_parts) > 0 /\ path_parts[1] = <<"v", "1">>
          /\ Len(path_parts) > 1
         THEN path_parts[2]
       ELSE IF Len(path_parts) > 0 THEN path_parts[Len(path_parts)]
       ELSE <<"i", "n", "d", "e", "x">>

(* _handle_dynamic_request, line 140.                                      *)
ExtractFunctionName ==
    /\ function_name = <<>>
    /\ function_name' = _extract_function_name(path)
    /\ UNCHANGED <<poolVars, reqVars, histVars, snap, svcVars, gwVars,
                   monVars, manVars, path, respVars, toVars>>

(* ---- RestServer._handle_dynamic_request: the response ----              *)
(* One dynamic request that passed the running check.  Its stream argument *)
(* is what kwargs.get("stream", False) gives: False when absent, a JSON    *)
(* boolean from a JSON body, a str from a form or the query string.  The   *)
(* result of execute_function is an exception ("raised"), a value that is  *)
(* no dict ("list"), or a dict: error tells whether result.get("error")    *)
(* is set, values lists its other values in order, each a str of n words   *)
(* or a generator of n items.                                              *)
Truthy(value) == value \in {"True", "'true'", "'false'"}

(* The items a generator yields, in its order.                             *)
Items == <<"b", "a", "c">>

Results ==
    {[kind |-> k, error |-> FALSE, values |-> <<>>] : k \in {"raised", "list"}}
    \cup {[kind |-> "dict", error |-> TRUE,
           values |-> <<[t |-> "str", n |-> 1]>>]}
    \cup {[kind |-> "dict", error |-> FALSE, values |-> v] :
            v \in {<<>>, <<[t |-> "str", n |-> 2]>>}
                  \cup UNION {{<<[t |-> "gen", n |-> k]>>,
                               <<[t |-> "str", n |-> 2], [t |-> "gen", n |-> k]>>,
                               <<[t |-> "gen", n |-> k], [t |-> "gen", n |-> 1]>>}
                              : k \in 0..MaxItems}}

(* round(num / den, 0) for num >= 0 and den > 0, as Python rounds: to the   *)
(* nearest integer, a tie to the even one.                                 *)
Round(num, den) ==
    LET q == num \div den
        r == num % den
    IN IF 2 * r > den \/ (2 * r = den /\ q % 2 = 1) THEN q + 1 ELSE q

(* Mutant of StatsDue: the token count is not looked at.                   *)
StatsDueAlways(duration, count) == duration > 0

(* Lines 89 and 202: if duration > 0 and token_count > 0.                  *)
StatsDue(duration, count) == duration > 0 /\ count > 0

(* Lines 90-95 and 203-207: the statistics of count tokens in duration     *)
(* units of the clock.  While a request is answered a unit of now is 4 ms: *)
(* round(duration, 2) is given in hundredths of a second and               *)
(* round(token_count / duration, 1) in tenths of a token per second.       *)
TokenStats(count, duration) ==
    [tokens |-> count,
     duration |-> Round(2 * duration, 5),
     tokens_per_sec |-> Round(2500 * count, duration)]

(* Lines 140-157: start_time is taken and execute_function is awaited.     *)
HandlerDispatch ==
    /\ hpc = "new"
    /\ hpc' = "exec"
    /\ start_time' = now
    /\ UNCHANGED <<poolVars, reqVars, histVars, snap, svcVars, gwVars, monVars,
                   manVars, path, function_name, stream, result, analytics,
                   token_count, http_response, api_calls, error_calls,
                   raw_generator, frames, toVars>>

(* Lines 159-216, after execute_function has returned or raised.  An       *)
(* exception is reported with track_error and re-raised.  A result is      *)
(* recorded in the session state; a generator found in a dict without      *)
(* error is streamed when stream is true; otherwise a dict without error   *)
(* gets its token count, its _stats and one track_api_call, and the result *)
(* goes to JSONResponse, whose json.dumps raises TypeError on a generator. *)
HandlerRespond ==
    LET dict == result.kind = "dict" /\ ~result.error
        gens == SelectSeq(result.values, LAMBDA v : v.t = "gen")
        words == [i \in 1..Len(result.values) |->
                    IF result.values[i].t = "str" THEN result.values[i].n ELSE 0]
        tokens == IF Len(words) = 0 THEN 0
                  ELSE IF Len(words) = 1 THEN words[1] ELSE words[1] + words[2]
        duration == now - start_time
    IN /\ hpc = "exec"
       /\ IF result.kind = "raised"
            THEN /\ hpc' = "done"
                 /\ http_response' = [kind |-> "raised", stats |-> <<>>]
                 /\ error_calls' = error_calls + (IF analytics THEN 1 ELSE 0)
                 /\ UNCHANGED <<requests_processed, api_calls, raw_generator,
                                token_count>>
          ELSE IF Truthy(stream) /\ dict /\ Len(gens) > 0
            THEN /\ hpc' = "sse_start"
                 /\ http_response' = [kind |-> "sse", stats |-> <<>>]
                 /\ raw_generator' = SubSeq(Items, 1, gens[1].n)
                 /\ requests_processed' = requests_processed + 1
                 /\ UNCHANGED <<api_calls, error_calls, token_count>>
          ELSE /\ hpc' = "done"
               /\ requests_processed' = requests_processed + 1
               /\ token_count' = IF dict THEN tokens ELSE token_count
               /\ api_calls' =
                    IF dict /\ analytics
                      THEN Append(api_calls,
                                  [duration |-> duration, tokens |-> tokens,
                                   success |-> TRUE])
                      ELSE api_calls
               /\ http_response' =
                    IF Len(gens) > 0
                      THEN [kind |-> "raised", stats |-> <<>>]
                      ELSE [kind |-> "json",
                            stats |-> IF dict /\ StatsDue(duration, tokens)
                                        THEN <<TokenStats(tokens, duration)>>
                                        ELSE <<>>]
               /\ UNCHANGED <<error_calls, raw_generator>>
       /\ UNCHANGED <<poolVars, reqVars, histVars, snap, svcVars, api_key, gpc,
                      route, hdr, fname, http, detail, monVars, manVars, path,
                      function_name, stream, result, analytics, start_time,
                      frames, toVars>>

(* _sse_event_generator(raw_generator), one next() of the http_response's       *)
(* iterator: the body up to its first statement, a chunk frame per item,   *)
(* the stats frame, the completed frame.                                   *)
SseNext ==
    /\ CASE hpc = "sse_start" ->
              /\ hpc' = "sse_loop"
              /\ token_count' = 0
              /\ start_time' = now
              /\ UNCHANGED <<raw_generator, frames>>
         [] hpc = "sse_loop" /\ Len(raw_generator) > 0 ->
              /\ token_count' = token_count + 1
              /\ frames' = Append(frames, [chunk |-> Head(raw_generator)])
              /\ raw_generator' = Tail(raw_generator)
              /\ UNCHANGED <<hpc, start_time>>
         [] hpc = "sse_loop" /\ Len(raw_generator) = 0 ->
              /\ IF StatsDue(now - start_time, token_count)
                   THEN /\ frames' = Append(frames,
                              [stats |-> TokenStats(token_count, now - start_time)])
                        /\ hpc' = "sse_completed"
                   ELSE /\ frames' = Append(frames, [completed |-> TRUE])
                        /\ hpc' = "sse_end"
              /\ UNCHANGED <<token_count, start_time, raw_generator>>
         [] hpc = "sse_completed" ->
              /\ frames' = Append(frames, [completed |-> TRUE])
              /\ hpc' = "sse_end"
              /\ UNCHANGED <<token_count, start_time, raw_generator>>
         [] OTHER -> FALSE
    /\ UNCHANGED <<poolVars, reqVars, histVars, snap, svcVars, gwVars, monVars,
                   manVars, path, function_name, stream, result, analytics,
                   http_response, api_calls, error_calls, toVars>>

(* A dynamic request with the given stream argument, for which             *)
(* execute_function will give the given result; analytics tells whether    *)
(* the server has an analytics collaborator.  hpc = "none": no request.    *)
ResponseInit(pc, s, r, a) ==
    /\ hpc = pc
    /\ stream = s
    /\ result = r
    /\ analytics = a
    /\ start_time = 0
    /\ token_count = 0
    /\ http_response = [kind |-> "none", stats |-> <<>>]
    /\ api_calls = <<>>
    /\ error_calls = 0
    /\ raw_generator = <<>>
    /\ frames = <<>>

(* No request path has been taken apart.                                   *)
PathInit(p) == path = p /\ function_name = <<>>

(* ---- the timeout argument of a dynamic request ----                     *)
(* The value of the key timeout among the request's arguments: absent, a   *)
(* JSON null, number, boolean or list from a JSON body (int |-> "big": an  *)
(* integer too large for a float), a str from a form or the query string,  *)
(* given by the number it spells (-1: it spells none).                     *)
TimeoutValues ==
    {[t |-> x] : x \in {"absent", "null", "big"}}
    \cup {[t |-> "num", v |-> n] : n \in -1..MaxTimeout}
    \cup {[t |-> "bool", v |-> b] : b \in 0..1}
    \cup {[t |-> "list", len |-> n] : n \in 0..1}
    \cup {[t |-> "str", len |-> 0, v |-> -1]}
    \cup {[t |-> "str", len |-> 1, v |-> n] : n \in -1..MaxTimeout}

(* bool(value): None, zero, False and the empty str and list are false.    *)
Bool(value) ==
    CASE value.t \in {"absent", "null"} -> FALSE
      [] value.t \in {"num", "bool"} -> value.v # 0
      [] value.t \in {"str", "list"} -> value.len # 0
      [] OTHER -> TRUE

(* float(value): the number, or the exception raised.                      *)
Float(value) ==
    CASE value.t \in {"num", "bool"} -> [exc |-> "", v |-> value.v]
      [] value.t = "str" /\ value.v >= 0 -> [exc |-> "", v |-> value.v]
      [] value.t = "str" -> [exc |-> "ValueError", v |-> 0]
      [] value.t = "big" -> [exc |-> "OverflowError", v |-> 0]
      [] OTHER -> [exc |-> "TypeError", v |-> 0]

(* Lines 143-148: timeout = kwargs.pop("timeout", None); a true value is   *)
(* converted with float(), ValueError and TypeError giving None; any other *)
(* exception leaves the handler.                                           *)
HandlerTimeout ==
    LET value == IF "timeout" \in DOMAIN kwargs THEN kwargs["timeout"]
                 ELSE [t |-> "null"]
    IN /\ tpc = "new"
       /\ kwargs' = [k \in DOMAIN kwargs \ {"timeout"} |-> kwargs[k]]
       /\ IF ~Bool(value)
            THEN tpc' = "popped" /\ handler_timeout' = value
          ELSE IF Float(value).exc = ""
            THEN tpc' = "popped" /\ handler_timeout' = [t |-> "num", v |-> Float(value).v]
          ELSE IF Float(value).exc \in {"ValueError", "TypeError"}
            THEN tpc' = "popped" /\ handler_timeout' = [t |-> "null"]
          ELSE tpc' = "raised" /\ handler_timeout' = value
       /\ UNCHANGED <<poolVars, reqVars, histVars, snap, svcVars, gwVars, monVars,
                      manVars, path, function_name, respVars, default_timeout,
                      effective_timeout, function_kwargs, timeout_arg>>

(* execute_function(function_name, timeout, kwargs) and submit_request,    *)
(* lines 67-72 of simple_worker_pool.py: the request waits for             *)
(* timeout or self.default_timeout, and the worker calls function(kwargs). *)
SubmitWithKwargs ==
    /\ tpc = "popped"
    /\ tpc' = "submitted"
    /\ effective_timeout' = IF Bool(handler_timeout) THEN handler_timeout.v ELSE default_timeout
    /\ function_kwargs' = DOMAIN kwargs
    /\ UNCHANGED <<poolVars, reqVars, histVars, snap, svcVars, gwVars, monVars,
                   manVars, path, function_name, respVars, default_timeout,
                   kwargs, handler_timeout, timeout_arg>>

(* A dynamic request with the given arguments on a pool with the given     *)
(* default timeout.  tpc = "none": no request.                             *)
TimeoutInit(pc, args, default) ==
    /\ tpc = pc
    /\ kwargs = args
    /\ default_timeout = default
    /\ timeout_arg = (IF "timeout" \in DOMAIN args THEN args["timeout"]
                                                   ELSE [t |-> "absent"])
    /\ handler_timeout = [t |-> "null"]
    /\ effective_timeout = 0
    /\ function_kwargs = {}

(* ManifestManager.__init__: no manifest; no dynamic request.              *)
ResponseIdle ==
    /\ ResponseInit("none", "absent", [kind |-> "none"], FALSE)
    /\ TimeoutInit("none", <<>>, 0)

AuxIdle == ManifestInit(NoManifest) /\ PathInit(<<>>) /\ ResponseIdle

(* Requests that have passed the gateway's checks and call a declared      *)
(* capability; no API key configured.                                      *)
GatewayPassed ==
    /\ api_key = "None"
    /\ gpc = [r \in Reqs |-> "exec"]
    /\ route = [r \in Reqs |-> "dynamic"]
    /\ hdr = [r \in Reqs |-> "None"]
    /\ fname = [r \in Reqs |-> "caption"]
    /\ http = [r \in Reqs |-> 0]
    /\ detail = [r \in Reqs |-> ""]
    /\ requests_processed = 0

(* No RestServer has been constructed, so no monitor thread exists; the    *)
(* configuration holds shutdown_check_interval and shutdown_timeout.       *)
MonitorInit(interval, timeout) ==
    /\ now = 0
    /\ shutdown_check_interval = interval
    /\ shutdown_timeout = timeout
    /\ rest_server = 0
    /\ n_servers = 0
    /\ mgr_pc = "idle"
    /\ server_alive = [i \in Servers |-> FALSE]
    /\ mon_pc = [i \in Servers |-> "absent"]
    /\ next_check = [i \in Servers |-> 0]
    /\ shutdown_event = [i \in Servers |-> FALSE]
    /\ last_idle_time = [i \in Servers |-> -1]
    /\ consecutive_idle_checks = [i \in Servers |-> 0]
    /\ shutdown_attempted = [i \in Servers |-> FALSE]
    /\ host_shutdowns = <<>>
    /\ started_at = [i \in Servers |-> -1]
    /\ last_busy = [i \in Servers |-> -1]
    /\ consecutive_errors = [i \in Servers |-> 0]

(* shutdown_monitor_enabled = False: no RestServer starts a monitor.       *)
MonitorDisabled == MonitorInit(1, 1)

(* The state after a successful InferenceService.start("m"): one handle    *)
(* per worker, a fresh pool.  inference_workers < 1 never yields a pool    *)
(* (start returns False), so n >= 1; inference_max_queue_size is any int   *)
(* the settings command accepts (0 included).                              *)
QueueSizes == [i \in 1..(MaxQueue + 1) |-> i % (MaxQueue + 1)]

Init ==
    /\ \E n \in 1..MaxWorkers, i \in DOMAIN QueueSizes : PoolInit(n, QueueSizes[i])
    /\ ReqInit
    /\ worker_pool = TRUE
    /\ current_model = "m"
    /\ worker_backends = [i \in 1..n_workers |-> i]
    /\ start_result = "ok"
    /\ svc_pc = "idle"
    /\ n_starts = 1
    /\ GatewayPassed
    /\ AuxIdle
    /\ MonitorDisabled

WorkerStep(w) ==
    \/ WorkerLoop(w)
    \/ WorkerGet(w)
    \/ WorkerBegin(w)
    \/ \E ok \in BOOLEAN : WorkerRun(w, ok)
    \/ WorkerFinish(w)

WaitStep(r) ==
    \/ SubmitPut(r)
    \/ SubmitResult(r)
    \/ SubmitTimeout(r)

RequestStep(r) ==
    \/ Execute(r)
    \/ SubmitFullCheck(r) /\ UNCHANGED at_check
    \/ WaitStep(r)

Shutdown ==
    \/ ShutdownFlag
    \/ ShutdownPoison
    \/ ShutdownJoin

Next ==
    \/ \E r \in Reqs : RequestStep(r)
    \/ \E w \in Workers : WorkerStep(w)
    \/ Shutdown

Spec == Init /\ [][Next]_vars

(* --------------------- the pool while it is in service ----------------- *)
PoolRun ==
    \/ \E r \in Reqs : RequestStep(r)
    \/ \E w \in Workers : WorkerStep(w)

(* Workers are threads of their own: each keeps taking steps.  Capability  *)
(* functions are assumed to terminate (WorkerRun is a step like any other).*)
SpecLive ==
    /\ Init
    /\ [][PoolRun]_vars
    /\ \A w \in WorkerIds : WF_vars(WorkerStep(w))

(* The pool with get_stats() called at any moment.                         *)
NextStats ==
    \/ PoolRun
    \/ Stats

SpecStats == Init /\ [][NextStats]_vars

(* The pool with the history of each request's full() check.               *)
TrackedFullCheck(r) ==
    /\ SubmitFullCheck(r)
    /\ at_check' = IF n_workers = 1 /\ max_queue_size = 1
                     THEN [at_check EXCEPT ![r] = Executing]
                     ELSE at_check

NextBP ==
    \/ \E r \in Reqs : Execute(r) \/ TrackedFullCheck(r) \/ WaitStep(r)
    \/ \E w \in Workers : WorkerStep(w)
    \/ Shutdown

SpecBP == Init /\ [][NextBP]_vars

(* ---------------------- InferenceService.start / stop ------------------ *)
NoRequestInFlight == \A r \in Reqs : spc[r] \in {"idle", "done"}

(* start(): reads the config; if self.worker_pool: self.worker_pool        *)
(* .shutdown().  RestServer.start calls it only while its server thread is *)
(* not alive, so no Execute is in flight.                                  *)
StartBegin ==
    /\ svc_pc = "idle"
    /\ n_starts < MaxStarts
    /\ NoRequestInFlight
    /\ n_starts' = n_starts + 1
    /\ start_result' = "none"
    /\ IF worker_pool
         THEN /\ running' = FALSE
              /\ sd_pc' = "poison"
              /\ sd_i' = 0
              /\ svc_pc' = "start_sd"
         ELSE /\ svc_pc' = "start_load"
              /\ UNCHANGED <<running, sd_pc, sd_i>>
    /\ UNCHANGED <<n_workers, max_queue_size, request_queue, processing_count,
                   timeout_count, wpc, wjob, reqVars, histVars, snap,
                   worker_pool, current_model, worker_backends, extVars>>

(* clear_worker_backends(); self.current_model = model_id;                 *)
(* self.worker_backends = get_worker_backends(model_id, n): k of the n     *)
(* handles could be created; if not self.worker_backends: return False;    *)
(* self.worker_pool = SimpleWorkerPool(n, q, timeout); return True.        *)
(* A new pool replaces the old pool object, whose leftover daemon threads  *)
(* touch only the old object.                                              *)
StartLoad(n, q, k) ==
    /\ svc_pc = "start_load" \/ (svc_pc = "start_sd" /\ sd_pc = "returned")
    /\ svc_pc' = "idle"
    /\ current_model' = "m"
    /\ worker_backends' = [i \in 1..k |-> i]
    /\ IF k = 0
         THEN /\ start_result' = "failed"
              /\ UNCHANGED <<poolVars, worker_pool>>
         ELSE /\ start_result' = "ok"
              /\ worker_pool' = TRUE
              /\ n_workers' = n
              /\ max_queue_size' = q
              /\ request_queue' = <<>>
              /\ processing_count' = 0
              /\ timeout_count' = 0
              /\ running' = TRUE
              /\ wpc' = [w \in WorkerIds |-> IF w <= n THEN "loop" ELSE "absent"]
              /\ wjob' = [w \in WorkerIds |-> None]
              /\ sd_pc' = "idle"
              /\ sd_i' = 0
    /\ pending_order' = IF k = 0 THEN pending_order ELSE <<>>
    /\ UNCHANGED <<reqVars, at_check, snap, n_starts, extVars>>

(* stop(): if self.worker_pool: self.worker_pool.shutdown()                *)
StopBegin ==
    /\ svc_pc = "idle"
    /\ start_result' = "none"
    /\ IF worker_pool
         THEN /\ running' = FALSE
              /\ sd_pc' = "poison"
              /\ sd_i' = 0
              /\ svc_pc' = "stop_sd"
         ELSE /\ svc_pc' = "stop_rest"
              /\ UNCHANGED <<running, sd_pc, sd_i>>
    /\ UNCHANGED <<n_workers, max_queue_size, request_queue, processing_count,
                   timeout_count, wpc, wjob, reqVars, histVars, snap,
                   worker_pool, current_model, worker_backends, n_starts,
                   extVars>>

(* self.worker_pool = None                                                 *)
StopClearPool ==
    /\ svc_pc = "stop_sd"
    /\ sd_pc = "returned"
    /\ worker_pool' = FALSE
    /\ svc_pc' = "stop_rest"
    /\ UNCHANGED <<poolVars, reqVars, histVars, snap, current_model,
                   worker_backends, start_result, n_starts, extVars>>

(* Mutant of StopClearRest: current_model is left as it was.               *)
StopKeepsModel ==
    /\ svc_pc = "stop_rest"
    /\ worker_backends' = <<>>
    /\ svc_pc' = "idle"
    /\ UNCHANGED <<poolVars, reqVars, histVars, snap, worker_pool,
                   current_model, start_result, n_starts, extVars>>

(* self.worker_backends = []; self.current_model = None                    *)
StopClearRest ==
    /\ svc_pc = "stop_rest"
    /\ worker_backends' = <<>>
    /\ current_model' = "None"
    /\ svc_pc' = "idle"
    /\ UNCHANGED <<poolVars, reqVars, histVars, snap, worker_pool,
                   start_result, n_starts, extVars>>

(* The service before any start(): InferenceService.__init__; no pool      *)
(* object exists, so the pool variables are idle placeholders.             *)
ServiceUnstarted ==
    /\ n_workers = 0
    /\ max_queue_size = 0
    /\ request_queue = <<>>
    /\ processing_count = 0
    /\ timeout_count = 0
    /\ running = FALSE
    /\ wpc = [w \in WorkerIds |-> "absent"]
    /\ wjob = [w \in WorkerIds |-> None]
    /\ sd_pc = "idle"
    /\ sd_i = 0
    /\ ReqInit
    /\ worker_pool = FALSE
    /\ current_model = "None"
    /\ worker_backends = <<>>
    /\ start_result = "none"
    /\ svc_pc = "idle"
    /\ n_starts = 0

InitService ==
    /\ ServiceUnstarted
    /\ GatewayPassed
    /\ AuxIdle
    /\ MonitorDisabled

Start ==
    \/ StartBegin
    \/ \E n \in 1..MaxWorkers, q \in 0..MaxQueue :
          \E k \in 0..n : StartLoad(n, q, k)

Stop ==
    \/ StopBegin
    \/ StopClearPool
    \/ StopClearRest

NextService ==
    \/ Start
    \/ Stop
    \/ ShutdownPoison
    \/ ShutdownJoin
    \/ \E r \in 1..MaxSvcReq : RequestStep(r)
    \/ \E w \in Workers : WorkerStep(w)

SpecService == InitService /\ [][NextService]_vars

(* The manifest manager of a process whose service is not started: loads   *)
(* from http(s) sources and local paths, in any order.                     *)
NextManifest ==
    \/ \E response \in Responses : LoadHttp(response)
    \/ \E file \in LocalFiles : LoadLocal(file)

SpecManifest == InitService /\ [][NextManifest]_vars

(* get_version_messages on a manager without a manifest, with a loaded     *)
(* manifest without version_messages, and with one that lists up to        *)
(* MaxAdvisories advisories; the current version is any of Versions.       *)
InitVersion ==
    /\ ServiceUnstarted
    /\ GatewayPassed
    /\ MonitorDisabled
    /\ \E n \in 0..MaxAdvisories : \E list \in [1..n -> Advisories] :
          \E opt \in (IF n = 0 THEN {"None", "no key", "empty"} ELSE {"list"}) :
             ManifestInit(
                IF opt = "None" THEN NoManifest
                ELSE IF opt = "no key" THEN ManifestData(Doc("1", "b"))[1]
                ELSE [ManifestData(Doc("1", "b"))[1]
                        EXCEPT !.version_messages = <<list>>])
    /\ PathInit(<<>>)
    /\ ResponseIdle

SpecVersion ==
    InitVersion
    /\ [][\E current \in Versions : GetVersionMessages(ReleaseText(current))]_vars

(* _extract_function_name on every path of up to MaxPath characters: a     *)
(* slash, the characters of v1, another character.                         *)
InitPath ==
    /\ ServiceUnstarted
    /\ GatewayPassed
    /\ MonitorDisabled
    /\ ManifestInit(NoManifest)
    /\ \E n \in 0..MaxPath : \E p \in [1..n -> {"/", "v", "1", "c"}] : PathInit(p)
    /\ ResponseIdle

SpecPath == InitPath /\ [][ExtractFunctionName]_vars

(* ======================= claims under Spec ============================= *)

AllWorkersExited == \A w \in Workers : wpc[w] = "exited"
TimeoutResults == {r \in Reqs : sres[r] = "timeout"}
Busy == {w \in Workers : wpc[w] \in {"run", "fin"}}

(* C1: in every reachable state the request queue holds at most            *)
(* max_queue_size items.                                                   *)
C1_QueueBounded == Len(request_queue) <= max_queue_size

(* C3: the future of every accepted request is completed exactly once:     *)
(* never twice, and, once every worker thread has ended, not zero times.   *)
C3_CompletedExactlyOnce ==
    /\ \A r \in Reqs : completions[r] <= 1
    /\ AllWorkersExited => \A r \in Reqs : Accepted(r) => completions[r] = 1

(* C4: processing is incremented once before and decremented once after    *)
(* each job, whether the function returns or raises: it always equals the  *)
(* number of workers between their increment and their decrement, and lies *)
(* in 0..N.                                                                *)
C4_ProcessingCount ==
    /\ processing_count = Cardinality(Busy)
    /\ 0 <= processing_count
    /\ processing_count <= n_workers

(* C4 witness: every worker is executing a job; one function has raised.   *)
C4_Witness ==
    /\ n_workers = MaxWorkers
    /\ processing_count = n_workers
    /\ \E w \in Workers : wpc[w] = "fin" /\ fval[wjob[w]] = "error"

(* C5: jobs are dequeued in FIFO order: a worker that dequeues a job gets   *)
(* the oldest request that was enqueued and not yet dequeued.              *)
C5_FIFO ==
    [][\A w \in Workers :
          (wpc[w] = "get" /\ wpc'[w] = "got") => wjob'[w] = Head(pending_order)]_vars

(* C5 witness: two requests were dequeued one after the other while a      *)
(* third is still waiting in the queue.                                    *)
C5_Witness ==
    /\ \E w \in Workers : wpc[w] = "got" /\ completions[wjob[w]] = 0
    /\ \E r \in Reqs : completions[r] = 1
    /\ pending_order # <<>>

(* C8: when Shutdown() has returned, every worker thread has terminated.   *)
C8_ShutdownJoinsWorkers == sd_pc = "returned" => AllWorkersExited

(* C9: no two workers execute a function of the same backend handle at the *)
(* same time.                                                              *)
C9_HandleExclusive ==
    \A w1, w2 \in Workers :
        (w1 # w2 /\ wpc[w1] = "run" /\ wpc[w2] = "run")
            => rhandle[wjob[w1]] # rhandle[wjob[w2]]

(* ======================= claims under SpecBP =========================== *)

QueueAtCapacity == max_queue_size > 0 /\ Len(request_queue) >= max_queue_size

(* A step in which request r's submit_request decides: its full() check or *)
(* its put.                                                                *)
C2_RejectStep ==
    \A r \in Reqs :
        (spc[r] \in {"submit", "put"} /\ spc'[r] # spc[r]) =>
            IF QueueAtCapacity
              THEN /\ sres'[r] = "rejected"
                   /\ spc'[r] = "done"
                   /\ UNCHANGED <<request_queue, processing_count, timeout_count>>
              ELSE /\ sres'[r] = "none"
                   /\ spc[r] = "put" =>
                        /\ request_queue' = Append(request_queue, r)
                        /\ spc'[r] = "wait"

(* workers=1, capacity=1: while a executes, b and c are submitted.         *)
C2_Scenario ==
    \A a, b, c \in Reqs :
        (/\ a # b /\ a # c /\ b # c
         /\ n_workers = 1 /\ max_queue_size = 1 /\ sd_pc = "idle"
         /\ wpc[1] = "run" /\ wjob[1] = a
         /\ at_check[b] = {a} /\ at_check[c] = {a}
         /\ spc[b] \in {"wait", "done"} /\ spc[c] \in {"wait", "done"}
         /\ \A d \in Reqs \ {a, b, c} : spc[d] = "idle")
        => \E x, y \in {b, c} :
              /\ x # y
              /\ request_queue = <<x>>
              /\ sres[x] \in {"none", "timeout"}
              /\ sres[y] = "rejected"

C2_QueuedRunsAfter ==
    \A a, b \in Reqs :
        (/\ n_workers = 1 /\ max_queue_size = 1
         /\ at_check[b] = {a}
         /\ wjob[1] = b)
        => completions[a] = 1

(* C2: a Submit that finds the queue full, at its full() check or at its   *)
(* put (two Submits racing for the last slot), returns rejected and leaves *)
(* the queue, processing and timeouts as they were; one that finds room is *)
(* enqueued.  With workers=1 and capacity=1, of two Submits made while a   *)
(* request executes exactly one is queued and the other rejected, and the  *)
(* queued job is taken only after the first has finished.                  *)
C2_RejectWhenFull ==
    /\ [][C2_RejectStep]_vars
    /\ []C2_Scenario
    /\ []C2_QueuedRunsAfter

(* C2 witness: request 1 executes on the only worker; of two requests      *)
(* submitted meanwhile one is queued and the other was rejected.           *)
C2_Witness ==
    /\ n_workers = 1 /\ max_queue_size = 1
    /\ wpc[1] = "run" /\ wjob[1] = 1
    /\ \E x, y \in Reqs :
          /\ at_check[x] = {1} /\ at_check[y] = {1}
          /\ request_queue = <<x>>
          /\ sres[y] = "rejected"

(* ======================= claims under SpecLive ========================= *)

C6_TimeoutStep ==
    \A r \in Reqs :
        (spc[r] = "wait" /\ sres'[r] = "timeout") =>
            /\ timeout_count' = timeout_count + 1
            /\ UNCHANGED <<request_queue, pending_order, wpc, wjob,
                           processing_count, completions, fval>>

C6_ResultStable == \A r \in Reqs : sres[r] # "none" => sres'[r] = sres[r]

(* C6: a timed-out Submit returns timeout and adds exactly 1 to timeouts,  *)
(* which always equals the number of timeout results returned; the timeout *)
(* leaves the job where it is (queue or worker), the job is still executed *)
(* to completion, and what the caller received never changes.              *)
C6_TimeoutCancelsWaiterOnly ==
    /\ [](timeout_count = Cardinality(TimeoutResults))
    /\ [][C6_TimeoutStep /\ C6_ResultStable]_vars
    /\ \A r \in Reqs : (sres[r] = "timeout") ~> (completions[r] = 1)

(* C6 witness: a request's caller got timeout and its job completed later. *)
C6_Witness ==
    \E r \in Reqs : sres[r] = "timeout" /\ completions[r] = 1 /\ fval[r] = "ok"

(* ======================= claims under SpecStats ======================== *)

(* C7: no snapshot shows queue_size = 0 and processing = 0 while an        *)
(* accepted request's job has not finished.                                *)
C7_ConsistentSnapshot ==
    snap.pending => (snap.queue_size > 0 \/ snap.processing > 0)

(* ======================= claims under SpecService ====================== *)

(* C10: after a failed Start the service is unstarted: not running, no     *)
(* pool, no handles, no current model.                                     *)
C10_FailedStartUnstarted ==
    start_result = "failed" =>
        /\ ~IsRunning
        /\ ~worker_pool
        /\ worker_backends = <<>>
        /\ current_model = "None"

(* ============================ HTTP gateway ============================= *)
Routes == {"/health", "/v1/models", "/v1/stats", "dynamic"}

(* Values of the X-API-Key header and of detection_api_key: not there, the *)
(* empty string, the configured secret, another string.                    *)
HeaderValues == {"None", "", "k", "x"}
ApiKeys == {"None", "", "k"}

(* Mutant of _verify_api_key: a wrong key is let through.                  *)
VerifyPresenceOnly(key, header) ==
    IF key \in {"None", ""} THEN "ok"
    ELSE IF header \in {"None", ""} THEN "Missing X-API-Key header"
    ELSE "ok"

(* _verify_api_key: "ok" for return True, else the detail of the 401.      *)
(* "not x" is true of None and of the empty string.                        *)
_verify_api_key(key, header) ==
    IF key \in {"None", ""} THEN "ok"
    ELSE IF header \in {"None", ""} THEN "Missing X-API-Key header"
    ELSE IF header # key THEN "Invalid API key"
    ELSE "ok"

(* A request arrives: FastAPI matches the route and resolves               *)
(* Depends(self._verify_api_key); HTTPException(401) ends the request.     *)
GatewayAuth(r, rt, h, fn) ==
    /\ gpc[r] = "new"
    /\ svc_pc \notin {"start_sd", "start_load"}
    /\ \A x \in Reqs : x < r => gpc[x] # "new"
    /\ route' = [route EXCEPT ![r] = rt]
    /\ hdr' = [hdr EXCEPT ![r] = h]
    /\ fname' = [fname EXCEPT ![r] = fn]
    /\ IF _verify_api_key(api_key, h) = "ok"
         THEN /\ gpc' = [gpc EXCEPT ![r] = "route"]
              /\ UNCHANGED <<http, detail>>
         ELSE /\ gpc' = [gpc EXCEPT ![r] = "done"]
              /\ http' = [http EXCEPT ![r] = 401]
              /\ detail' = [detail EXCEPT ![r] = _verify_api_key(api_key, h)]
    /\ UNCHANGED <<poolVars, reqVars, histVars, snap, svcVars, api_key,
                   requests_processed, monVars, auxVars>>

(* The route's endpoint runs.  /health, /v1/models and /v1/stats answer    *)
(* 200; the dynamic route enters _handle_dynamic_request:                  *)
(* if not self.inference_service.is_running(): raise HTTPException(503).   *)
GatewayDispatch(r) ==
    /\ gpc[r] = "route"
    /\ IF route[r] # "dynamic"
         THEN /\ gpc' = [gpc EXCEPT ![r] = "done"]
              /\ http' = [http EXCEPT ![r] = 200]
              /\ UNCHANGED detail
         ELSE IF ~IsRunning
         THEN /\ gpc' = [gpc EXCEPT ![r] = "done"]
              /\ http' = [http EXCEPT ![r] = 503]
              /\ detail' = [detail EXCEPT ![r] = "Inference service not running"]
         ELSE /\ gpc' = [gpc EXCEPT ![r] = "exec"]
              /\ UNCHANGED <<http, detail>>
    /\ UNCHANGED <<poolVars, reqVars, histVars, snap, svcVars, api_key, route,
                   hdr, fname, requests_processed, monVars, auxVars>>

(* execute_function has returned or raised.  An exception is re-raised     *)
(* (500); a result, error envelopes included, is recorded in the session   *)
(* state and returned as JSONResponse(result), whose status is 200.        *)
GatewayRespond(r) ==
    /\ gpc[r] = "exec"
    /\ spc[r] = "done"
    /\ gpc' = [gpc EXCEPT ![r] = "done"]
    /\ IF sres[r] = "raised"
         THEN /\ http' = [http EXCEPT ![r] = 500]
              /\ UNCHANGED requests_processed
         ELSE /\ requests_processed' = requests_processed + 1
              /\ http' = [http EXCEPT ![r] = 200]
    /\ UNCHANGED <<poolVars, reqVars, histVars, snap, svcVars, api_key, route,
                   hdr, fname, detail, monVars, auxVars>>

(* A gateway that has received no request; detection_api_key is one of KS. *)
GatewayInit(KS) ==
    /\ api_key \in KS
    /\ gpc = [r \in Reqs |-> "new"]
    /\ route = [r \in Reqs |-> "none"]
    /\ hdr = [r \in Reqs |-> "None"]
    /\ fname = [r \in Reqs |-> "none"]
    /\ http = [r \in Reqs |-> 0]
    /\ detail = [r \in Reqs |-> ""]
    /\ requests_processed = 0

(* The gateway's handling of request r, whose route and header are drawn   *)
(* from RS and HS.                                                         *)
Gateway(r, RS, HS) ==
    \/ \E rt \in RS, h \in HS :
          \E fn \in (IF rt = "dynamic" THEN FunctionNames ELSE {"none"}) :
             GatewayAuth(r, rt, h, fn)
    \/ GatewayDispatch(r)
    \/ GatewayRespond(r)

(* The gateway in front of a running service: every route, every header    *)
(* value, every API key setting.                                           *)
InitServe ==
    /\ \E n \in 1..MaxWorkers, i \in DOMAIN QueueSizes : PoolInit(n, QueueSizes[i])
    /\ ReqInit
    /\ worker_pool = TRUE
    /\ current_model = "m"
    /\ worker_backends = [i \in 1..n_workers |-> i]
    /\ start_result = "ok"
    /\ svc_pc = "idle"
    /\ n_starts = 1
    /\ GatewayInit(ApiKeys)
    /\ AuxIdle
    /\ MonitorDisabled

NextServe ==
    \/ \E r \in 1..MaxSvcReq : Gateway(r, Routes, HeaderValues) \/ RequestStep(r)
    \/ \E w \in Workers : WorkerStep(w)

SpecServe == InitServe /\ [][NextServe]_vars

(* The gateway in front of a service that is started and stopped: requests *)
(* on the dynamic route, no API key configured.                            *)
InitGateway ==
    /\ ServiceUnstarted
    /\ GatewayInit({"None"})
    /\ AuxIdle
    /\ MonitorDisabled

NextGateway ==
    \/ Start
    \/ Stop
    \/ ShutdownPoison
    \/ ShutdownJoin
    \/ \E r \in 1..MaxGwReq : Gateway(r, {"dynamic"}, {"None"}) \/ RequestStep(r)
    \/ \E w \in Workers : WorkerStep(w)

SpecGateway == InitGateway /\ [][NextGateway]_vars

(* ====================== idle-shutdown monitor ========================== *)
(* Every RestServer owns its InferenceService.  The service variables are  *)
(* those of the RestServer constructed last; the service of an earlier     *)
(* RestServer was stopped or never got a request, and it gets none any     *)
(* more, so its stats show no work.                                        *)
MonitorStats(i) ==
    IF i = n_servers THEN InferenceService_get_stats ELSE [status |-> "stopped"]

(* stats.get("queue_size", 0) and stats.get("processing", 0)               *)
StatsGet(stats, key) ==
    IF key \in DOMAIN stats THEN stats[key] ELSE 0

SampleIdle(i) ==
    /\ StatsGet(MonitorStats(i), "queue_size") = 0
    /\ StatsGet(MonitorStats(i), "processing") = 0

(* Mutant of TimeoutExceeded: any idle duration is enough.                 *)
TimeoutExceededAtOnce(i) == now - last_idle_time[i] >= 0

(* Mutant of TimeoutExceeded: the subtraction the wrong way round.         *)
TimeoutExceededSignSlip(i) == last_idle_time[i] - now >= shutdown_timeout

(* idle_duration = current_time - self.last_idle_time;                     *)
(* idle_duration >= self.shutdown_timeout                                  *)
TimeoutExceeded(i) == now - last_idle_time[i] >= shutdown_timeout

(* Mutant of MonitorTick: a sample that sees work leaves last_idle_time    *)
(* as it is.                                                               *)
MonitorTickNoReset(i) ==
    /\ mon_pc[i] = "wait"
    /\ ~shutdown_event[i]
    /\ now = next_check[i]
    /\ next_check' = [next_check EXCEPT ![i] = now + shutdown_check_interval]
    /\ IF shutdown_attempted[i]
         THEN /\ mon_pc' = [mon_pc EXCEPT ![i] = "exited"]
              /\ UNCHANGED <<last_idle_time, consecutive_idle_checks,
                             shutdown_attempted, host_shutdowns, started_at, last_busy>>
         ELSE IF SampleIdle(i)
         THEN IF last_idle_time[i] = -1
                THEN /\ last_idle_time' = [last_idle_time EXCEPT ![i] = now]
                     /\ consecutive_idle_checks' =
                            [consecutive_idle_checks EXCEPT ![i] = 1]
                     /\ UNCHANGED <<mon_pc, shutdown_attempted, host_shutdowns,
                                    last_busy>>
                ELSE /\ consecutive_idle_checks' =
                            [consecutive_idle_checks EXCEPT ![i] = @ + 1]
                     /\ IF TimeoutExceeded(i)
                          THEN /\ shutdown_attempted' =
                                      [shutdown_attempted EXCEPT ![i] = TRUE]
                               /\ host_shutdowns' = Append(host_shutdowns, now)
                               /\ mon_pc' = [mon_pc EXCEPT ![i] = "exited"]
                          ELSE UNCHANGED <<mon_pc, shutdown_attempted,
                                           host_shutdowns>>
                     /\ UNCHANGED <<last_idle_time, last_busy>>
         ELSE /\ consecutive_idle_checks' =
                     [consecutive_idle_checks EXCEPT ![i] = 0]
              /\ last_busy' = [last_busy EXCEPT ![i] = now]
              /\ UNCHANGED <<last_idle_time, mon_pc, shutdown_attempted,
                             host_shutdowns>>
    /\ consecutive_errors' = IF shutdown_attempted[i] THEN consecutive_errors
                             ELSE [consecutive_errors EXCEPT ![i] = 0]
    /\ UNCHANGED <<poolVars, reqVars, histVars, snap, svcVars, gwVars, auxVars, now,
                   shutdown_check_interval, shutdown_timeout, rest_server,
                   n_servers, mgr_pc, server_alive, shutdown_event,
                   started_at>>

(* One iteration of monitor_loop whose shutdown_event.wait(interval) timed *)
(* out: exit if shutdown_attempted; read the stats; on an idle sample      *)
(* record last_idle_time or compare the idle duration with the timeout and *)
(* call _shutdown_pod (which sets shutdown_attempted and runs runpodctl,   *)
(* whatever its outcome) and leave the loop; on a sample with work clear   *)
(* last_idle_time and the idle count.  Only this thread writes these       *)
(* fields.                                                                 *)
MonitorTick(i) ==
    /\ mon_pc[i] = "wait"
    /\ ~shutdown_event[i]
    /\ now = next_check[i]
    /\ next_check' = [next_check EXCEPT ![i] = now + shutdown_check_interval]
    /\ IF shutdown_attempted[i]
         THEN /\ mon_pc' = [mon_pc EXCEPT ![i] = "exited"]
              /\ UNCHANGED <<last_idle_time, consecutive_idle_checks,
                             shutdown_attempted, host_shutdowns, started_at, last_busy>>
         ELSE IF SampleIdle(i)
         THEN IF last_idle_time[i] = -1
                THEN /\ last_idle_time' = [last_idle_time EXCEPT ![i] = now]
                     /\ consecutive_idle_checks' =
                            [consecutive_idle_checks EXCEPT ![i] = 1]
                     /\ UNCHANGED <<mon_pc, shutdown_attempted, host_shutdowns,
                                    last_busy>>
                ELSE /\ consecutive_idle_checks' =
                            [consecutive_idle_checks EXCEPT ![i] = @ + 1]
                     /\ IF TimeoutExceeded(i)
                          THEN /\ shutdown_attempted' =
                                      [shutdown_attempted EXCEPT ![i] = TRUE]
                               /\ host_shutdowns' = Append(host_shutdowns, now)
                               /\ mon_pc' = [mon_pc EXCEPT ![i] = "exited"]
                          ELSE UNCHANGED <<mon_pc, shutdown_attempted,
                                           host_shutdowns>>
                     /\ UNCHANGED <<last_idle_time, last_busy>>
         ELSE /\ last_idle_time' = [last_idle_time EXCEPT ![i] = -1]
              /\ consecutive_idle_checks' =
                     [consecutive_idle_checks EXCEPT ![i] = 0]
              /\ last_busy' = [last_busy EXCEPT ![i] = now]
              /\ UNCHANGED <<mon_pc, shutdown_attempted, host_shutdowns>>
    /\ consecutive_errors' = IF shutdown_attempted[i] THEN consecutive_errors
                             ELSE [consecutive_errors EXCEPT ![i] = 0]
    /\ UNCHANGED <<poolVars, reqVars, histVars, snap, svcVars, gwVars, auxVars, now,
                   shutdown_check_interval, shutdown_timeout, rest_server,
                   n_servers, mgr_pc, server_alive, shutdown_event,
                   started_at>>

(* One iteration of monitor_loop whose get_stats() raises: the error is    *)
(* counted and the loop ends when consecutive_errors >=                    *)
(* max_consecutive_errors, else it continues with the next wait.           *)
MonitorTickError(i) ==
    /\ mon_pc[i] = "wait"
    /\ ~shutdown_event[i]
    /\ now = next_check[i]
    /\ ~shutdown_attempted[i]
    /\ next_check' = [next_check EXCEPT ![i] = now + shutdown_check_interval]
    /\ consecutive_errors' = [consecutive_errors EXCEPT ![i] = @ + 1]
    /\ mon_pc' = [mon_pc EXCEPT
                     ![i] = IF consecutive_errors[i] + 1 >= max_consecutive_errors
                              THEN "exited" ELSE "wait"]
    /\ UNCHANGED <<poolVars, reqVars, histVars, snap, svcVars, gwVars, auxVars, now,
                   shutdown_check_interval, shutdown_timeout, rest_server,
                   n_servers, mgr_pc, server_alive, shutdown_event,
                   last_idle_time, consecutive_idle_checks,
                   shutdown_attempted, host_shutdowns, started_at, last_busy>>

(* Mutant of MonitorWake: the loop clears the event and goes on waiting.   *)
MonitorWakeClears(i) ==
    /\ mon_pc[i] = "wait"
    /\ shutdown_event[i]
    /\ shutdown_event' = [shutdown_event EXCEPT ![i] = FALSE]
    /\ UNCHANGED <<poolVars, reqVars, histVars, snap, svcVars, gwVars, auxVars,
                   consecutive_errors, now, shutdown_check_interval,
                   shutdown_timeout, rest_server, n_servers, mgr_pc,
                   server_alive, mon_pc, next_check, last_idle_time,
                   consecutive_idle_checks, shutdown_attempted, host_shutdowns,
                   started_at, last_busy>>

(* shutdown_event.wait() returns True, or the loop condition sees the      *)
(* event: the monitor thread ends.                                         *)
MonitorWake(i) ==
    /\ mon_pc[i] = "wait"
    /\ shutdown_event[i]
    /\ mon_pc' = [mon_pc EXCEPT ![i] = "exited"]
    /\ UNCHANGED <<poolVars, reqVars, histVars, snap, svcVars, gwVars, auxVars, consecutive_errors, now,
                   shutdown_check_interval, shutdown_timeout, rest_server,
                   n_servers, mgr_pc, server_alive, next_check, shutdown_event,
                   last_idle_time, consecutive_idle_checks,
                   shutdown_attempted, host_shutdowns, started_at, last_busy>>

(* One time unit passes.  A wait(interval) that is due times out before    *)
(* more time passes.                                                       *)
TimePasses ==
    /\ now < MaxTime
    /\ \A i \in Servers :
          (mon_pc[i] = "wait" /\ ~shutdown_event[i]) => next_check[i] > now
    /\ now' = now + 1
    /\ UNCHANGED <<poolVars, reqVars, histVars, snap, svcVars, gwVars, auxVars, consecutive_errors,
                   shutdown_check_interval, shutdown_timeout, rest_server,
                   n_servers, mgr_pc, server_alive, mon_pc, next_check,
                   shutdown_event, last_idle_time, consecutive_idle_checks,
                   shutdown_attempted, host_shutdowns, started_at, last_busy>>

(* ServiceManager.start has returned True at time 0: RestServer 1 was      *)
(* constructed, its monitor thread started and its service started.        *)
InitMonitor ==
    /\ \E n \in 1..MaxWorkers, i \in DOMAIN QueueSizes : PoolInit(n, QueueSizes[i])
    /\ ReqInit
    /\ worker_pool = TRUE
    /\ current_model = "m"
    /\ worker_backends = [i \in 1..n_workers |-> i]
    /\ start_result = "ok"
    /\ svc_pc = "idle"
    /\ n_starts = 1
    /\ GatewayPassed
    /\ AuxIdle
    /\ now = 0
    /\ shutdown_check_interval \in 1..MaxInterval
    /\ shutdown_timeout \in 1..MaxIdle
    /\ rest_server = 1
    /\ n_servers = 1
    /\ mgr_pc = "idle"
    /\ server_alive = [i \in Servers |-> i = 1]
    /\ mon_pc = [i \in Servers |-> IF i = 1 THEN "wait" ELSE "absent"]
    /\ next_check = [i \in Servers |-> IF i = 1 THEN shutdown_check_interval ELSE 0]
    /\ shutdown_event = [i \in Servers |-> FALSE]
    /\ last_idle_time = [i \in Servers |-> -1]
    /\ consecutive_idle_checks = [i \in Servers |-> 0]
    /\ shutdown_attempted = [i \in Servers |-> FALSE]
    /\ host_shutdowns = <<>>
    /\ started_at = [i \in Servers |-> IF i = 1 THEN 0 ELSE -1]
    /\ last_busy = [i \in Servers |-> -1]
    /\ consecutive_errors = [i \in Servers |-> 0]

NextMonitor ==
    \/ \E r \in 1..MaxSvcReq : RequestStep(r)
    \/ \E w \in Workers : WorkerStep(w)
    \/ MonitorTick(1)
    \/ TimePasses

SpecMonitor == InitMonitor /\ [][NextMonitor]_vars

(* The monitor of a running service without traffic, whose stats read can  *)
(* fail at any tick.                                                       *)
SpecMonitorErrors ==
    InitMonitor /\ [][MonitorTick(1) \/ MonitorTickError(1) \/ TimePasses]_vars

(* ---------------------------- ServiceManager --------------------------- *)
(* ServiceManager.is_running(): rest_server and rest_server.is_running()   *)
ManagerIsRunning == rest_server # 0 /\ server_alive[rest_server]

(* ServiceManager.start up to the call of inference_service.start: a new   *)
(* RestServer is constructed, with a fresh InferenceService and, the       *)
(* monitor being enabled, a monitor thread of its own; rest_server.start   *)
(* calls inference_service.start, which finds no pool to shut down.        *)
ManagerStart ==
    /\ mgr_pc = "idle"
    /\ ~ManagerIsRunning
    /\ n_servers < MaxServers
    /\ NoRequestInFlight
    /\ svc_pc = "idle"
    /\ n_servers' = n_servers + 1
    /\ rest_server' = n_servers + 1
    /\ mon_pc' = [mon_pc EXCEPT ![n_servers + 1] = "wait"]
    /\ next_check' = [next_check EXCEPT
                         ![n_servers + 1] = now + shutdown_check_interval]
    /\ started_at' = [started_at EXCEPT ![n_servers + 1] = now]
    /\ worker_pool' = FALSE
    /\ current_model' = "None"
    /\ worker_backends' = <<>>
    /\ start_result' = "none"
    /\ n_starts' = 1
    /\ svc_pc' = "start_load"
    /\ mgr_pc' = "starting"
    /\ UNCHANGED <<poolVars, reqVars, histVars, snap, gwVars, auxVars, consecutive_errors, now,
                   shutdown_check_interval, shutdown_timeout, server_alive,
                   shutdown_event, last_idle_time, consecutive_idle_checks,
                   shutdown_attempted, host_shutdowns, last_busy>>

(* rest_server.start returns.  False when inference_service.start failed;  *)
(* otherwise the server thread is started and is_running() is returned,    *)
(* which is False when the server could not come up.  On False             *)
(* ServiceManager.start drops its reference: self.rest_server = None.      *)
ManagerStartEnd(up) ==
    /\ mgr_pc = "starting"
    /\ svc_pc = "idle"
    /\ mgr_pc' = "idle"
    /\ IF start_result = "ok" /\ up
         THEN /\ server_alive' = [server_alive EXCEPT ![rest_server] = TRUE]
              /\ UNCHANGED rest_server
         ELSE /\ rest_server' = 0
              /\ UNCHANGED server_alive
    /\ UNCHANGED <<poolVars, reqVars, histVars, snap, svcVars, gwVars, auxVars, consecutive_errors, now,
                   shutdown_check_interval, shutdown_timeout, n_servers,
                   mon_pc, next_check, shutdown_event, last_idle_time,
                   consecutive_idle_checks, shutdown_attempted,
                   host_shutdowns, started_at, last_busy>>

(* ServiceManager.stop with a rest_server: RestServer.stop sets the        *)
(* shutdown event of a live monitor thread and tells the server to exit;   *)
(* inference_service.stop() follows.                                       *)
ManagerStop ==
    /\ mgr_pc = "idle"
    /\ rest_server # 0
    /\ mgr_pc' = "stopping"
    /\ shutdown_event' = [shutdown_event EXCEPT
                             ![rest_server] = @ \/ mon_pc[rest_server] = "wait"]
    /\ server_alive' = [server_alive EXCEPT ![rest_server] = FALSE]
    /\ UNCHANGED <<poolVars, reqVars, histVars, snap, svcVars, gwVars, auxVars, consecutive_errors, now,
                   shutdown_check_interval, shutdown_timeout, rest_server,
                   n_servers, mon_pc, next_check, last_idle_time,
                   consecutive_idle_checks, shutdown_attempted,
                   host_shutdowns, started_at, last_busy>>

(* inference_service.stop() has returned: self.rest_server = None          *)
ManagerStopEnd ==
    /\ mgr_pc = "stopping"
    /\ svc_pc = "idle"
    /\ ~worker_pool /\ worker_backends = <<>> /\ current_model = "None"
    /\ mgr_pc' = "idle"
    /\ rest_server' = 0
    /\ UNCHANGED <<poolVars, reqVars, histVars, snap, svcVars, gwVars, auxVars, consecutive_errors, now,
                   shutdown_check_interval, shutdown_timeout, n_servers,
                   server_alive, mon_pc, next_check, shutdown_event,
                   last_idle_time, consecutive_idle_checks,
                   shutdown_attempted, host_shutdowns, started_at, last_busy>>

(* The service manager of a process with the monitor enabled, before its   *)
(* first start.                                                            *)
InitManager ==
    /\ ServiceUnstarted
    /\ GatewayPassed
    /\ AuxIdle
    /\ \E interval \in 1..MaxInterval, timeout \in 1..MaxIdle :
          MonitorInit(interval, timeout)

Monitor(i) ==
    \/ MonitorTick(i)
    \/ MonitorWake(i)

ManagerStep ==
    \/ ManagerStart
    \/ \E up \in BOOLEAN : ManagerStartEnd(up)
    \/ ManagerStop
    \/ ManagerStopEnd

NextManager ==
    \/ ManagerStep
    \/ \E k \in 0..1 : StartLoad(1, 1, k)
    \/ (mgr_pc = "stopping" /\ worker_pool) /\ StopBegin
    \/ StopClearPool
    \/ StopClearRest
    \/ ShutdownPoison
    \/ ShutdownJoin
    \/ \E w \in Workers : WorkerLoop(w) \/ WorkerGet(w)
    \/ \E i \in Servers : Monitor(i)
    \/ TimePasses

SpecManager == InitManager /\ [][NextManager]_vars

(* Monitor threads are threads of their own: a loop whose wait can return  *)
(* because the event is set does return.                                   *)
SpecManagerLive ==
    /\ InitManager
    /\ [][NextManager]_vars
    /\ \A i \in Servers : WF_vars(MonitorWake(i))

(* One dynamic request answered by _handle_dynamic_request, for every      *)
(* stream argument and every result of execute_function, while the clock   *)
(* advances.                                                               *)
InitRespond ==
    /\ ServiceUnstarted
    /\ GatewayPassed
    /\ MonitorDisabled
    /\ ManifestInit(NoManifest)
    /\ PathInit(<<>>)
    /\ \E s \in {"absent", "True", "False", "'true'", "'false'"} :
         \E r \in Results : \E a \in BOOLEAN : ResponseInit("new", s, r, a)
    /\ TimeoutInit("none", <<>>, 0)

SpecRespond ==
    InitRespond
    /\ [][HandlerDispatch \/ HandlerRespond \/ SseNext \/ TimePasses]_vars

(* The timeout of one dynamic request, for every value of its timeout      *)
(* argument, with and without other arguments, and every default timeout   *)
(* of the pool.                                                            *)
InitTimeout ==
    /\ ServiceUnstarted
    /\ GatewayPassed
    /\ MonitorDisabled
    /\ ManifestInit(NoManifest)
    /\ PathInit(<<>>)
    /\ ResponseInit("none", "absent", [kind |-> "none"], FALSE)
    /\ \E value \in TimeoutValues, others \in SUBSET {"image_url", "stream"} :
         \E default \in 1..MaxTimeout :
            TimeoutInit("new",
                        [k \in others \cup (IF value.t = "absent" THEN {}
                                            ELSE {"timeout"}) |->
                            IF k = "timeout" THEN value ELSE [t |-> "null"]],
                        default)

SpecTimeout == InitTimeout /\ [][HandlerTimeout \/ SubmitWithKwargs]_vars

(* The unstarted state of InferenceService.__init__.                       *)
Unstarted == ~worker_pool /\ worker_backends = <<>> /\ current_model = "None"

(* The step on which stop() returns.                                       *)
C11_StopReturns ==
    (svc_pc = "stop_rest" /\ svc_pc' = "idle") =>
        /\ Unstarted'
        /\ ~IsRunning'
        /\ InferenceService_get_stats'.status = "stopped"

(* stop() drops the pool only after its shutdown() has returned.           *)
C11_PoolShutDown ==
    (worker_pool /\ ~worker_pool') =>
        /\ svc_pc = "stop_sd"
        /\ ~running /\ sd_pc = "returned" /\ sd_i = n_workers

(* Every step of a stop() on an unstarted service leaves the service, the  *)
(* pool and the requests as they are.                                      *)
C11_UnstartedNoChange ==
    (/\ Unstarted
     /\ svc_pc' # svc_pc
     /\ (svc_pc = "stop_rest" \/ svc_pc' = "stop_rest")) =>
        /\ Unstarted'
        /\ UNCHANGED <<poolVars, reqVars>>

(* C11: Stop() from any state (unstarted, running, after a failed Start)   *)
(* shuts the pool down if there is one and leaves the service with no      *)
(* pool, no handles and no current model, so IsRunning() is false and      *)
(* Stats() reports stopped; Stop() on an unstarted service changes         *)
(* nothing, hence Stop();Stop() equals Stop().                             *)
C11_StopUnstarts ==
    /\ [][C11_StopReturns /\ C11_PoolShutDown /\ C11_UnstartedNoChange]_vars
    /\ [](svc_pc = "stop_rest" => ~worker_pool)

(* C11 witness: a stop() has returned on a service that was started with a *)
(* pool: the pool was shut down and the service is unstarted.              *)
C11_Witness ==
    /\ svc_pc = "idle"
    /\ n_starts >= 1
    /\ sd_pc = "returned"
    /\ Unstarted
    /\ InferenceService_get_stats.status = "stopped"

(* ======================= claims under SpecGateway ====================== *)

(* The results of Execute that are error envelopes made by Execute itself. *)
ErrorEnvelopes == {"not_started", "unavailable"}

NotStarted == ~worker_pool \/ worker_backends = <<>>

(* The step on which request r's Execute decides.                          *)
C12_ExecuteStep ==
    \A r \in Reqs :
        (/\ spc[r] = "idle" /\ spc'[r] # "idle"
         /\ (NotStarted \/ fname[r] \notin ModuleAttributes)) =>
            /\ spc'[r] = "done"
            /\ sres'[r] = IF NotStarted THEN "not_started" ELSE "unavailable"
            /\ UNCHANGED <<request_queue, processing_count, timeout_count,
                           pending_order, wjob, completions>>

C12_NeverEnqueued ==
    \A r \in Reqs :
        sres[r] \in ErrorEnvelopes =>
            /\ completions[r] = 0
            /\ \A i \in 1..Len(request_queue) : request_queue[i] # r
            /\ \A w \in Workers : wjob[w] # r

(* C12: Execute on a service that is not started, and Execute with a       *)
(* function name the backend module does not have, return an error         *)
(* envelope; nothing is enqueued and the pool's queue, processing and      *)
(* timeouts are unchanged.                                                 *)
C12_ErrorEnvelope ==
    /\ [][C12_ExecuteStep]_vars
    /\ []C12_NeverEnqueued

(* C12 witness: a request passed the gateway's running check, the service  *)
(* was stopped meanwhile, and Execute returned the not-started envelope.   *)
C12_Witness ==
    \E r \in Reqs :
        /\ sres[r] = "not_started"
        /\ fname[r] = "caption"
        /\ gpc[r] = "done"

(* C13: only a function name the manifest declares for the backend is      *)
(* enqueued; any other name gets an error envelope and is never run.       *)
C13_DeclaredOnly ==
    \A r \in Reqs :
        (spc[r] # "idle" /\ fname[r] \notin DeclaredFunctions) =>
            /\ spc[r] = "done"
            /\ sres[r] \in ErrorEnvelopes
            /\ completions[r] = 0

(* The step on which the dynamic route checks the service, taken while no  *)
(* start() or stop() is in progress.                                       *)
C14_DispatchStep ==
    \A r \in Reqs :
        (/\ gpc[r] = "route" /\ gpc'[r] # "route"
         /\ route[r] = "dynamic"
         /\ svc_pc = "idle"
         /\ start_result # "ok") =>
            /\ http'[r] = 503
            /\ gpc'[r] = "done"
            /\ UNCHANGED <<spc, request_queue, requests_processed>>

(* C14: a dynamic-route request is served only when the service is in the  *)
(* running state; never started, Start failed, re-Start failed after an    *)
(* earlier success, or stopped, the gateway answers 503 and does not       *)
(* invoke Execute, enqueue a job or record the request.                    *)
C14_ServedOnlyWhenRunning == [][C14_DispatchStep]_vars

(* ======================= claims under SpecServe ======================== *)

KeyConfigured == api_key \notin {"None", ""}

(* A request answered 401 is not dispatched.                               *)
C15_NotDispatched ==
    \A r \in Reqs :
        http[r] = 401 =>
            /\ gpc[r] = "done"
            /\ spc[r] = "idle"
            /\ sres[r] = "none"
            /\ completions[r] = 0

(* The step that answers 401 touches neither the pool, nor the requests'   *)
(* calls, nor the session record.                                          *)
C15_RejectStep ==
    \A r \in Reqs :
        (http[r] = 0 /\ http'[r] = 401) =>
            UNCHANGED <<poolVars, reqVars, requests_processed>>

(* Only an exact match, or no configured key, gets past auth.              *)
C15_PassOnlyOnMatch ==
    \A r \in Reqs :
        /\ (gpc[r] # "new" /\ http[r] # 401) =>
              (~KeyConfigured \/ hdr[r] = api_key)
        /\ (gpc[r] # "new" /\ (~KeyConfigured \/ hdr[r] = api_key)) =>
              http[r] # 401

C15_Details ==
    \A r \in Reqs :
        (gpc[r] # "new" /\ KeyConfigured) =>
            /\ hdr[r] \in {"None", ""} =>
                  http[r] = 401 /\ detail[r] = "Missing X-API-Key header"
            /\ hdr[r] \notin {"None", "", api_key} =>
                  http[r] = 401 /\ detail[r] = "Invalid API key"

C16_Rejected503 ==
    \A r \in Reqs :
        (gpc[r] = "done" /\ sres[r] = "rejected") => http[r] = 503

(* ======================= claims under SpecMonitor ====================== *)

(* The step on which monitor i evaluates a sample.                         *)
SampleStep(i) ==
    /\ mon_pc[i] = "wait"
    /\ next_check'[i] # next_check[i]
    /\ ~shutdown_attempted[i]

(* A sample that sees work clears first-idle and the idle count.           *)
C18_ClearStep ==
    \A i \in Servers :
        (SampleStep(i) /\ ~SampleIdle(i)) =>
            /\ last_idle_time'[i] = -1
            /\ consecutive_idle_checks'[i] = 0
            /\ host_shutdowns' = host_shutdowns

(* Idle time is counted from a sample later than the last sample that saw  *)
(* work, and a shutdown comes a full timeout of idle samples after it.     *)
C18_NoIdleAcrossWork ==
    \A i \in Servers :
        /\ last_idle_time[i] # -1 => last_idle_time[i] > last_busy[i]
        /\ (shutdown_attempted[i] /\ last_busy[i] # -1) =>
              host_shutdowns[Len(host_shutdowns)] - last_busy[i] > shutdown_timeout

(* C18: whenever a monitor sample observes queue_size > 0 or processing >  *)
(* 0, first-idle is cleared and the consecutive idle count reset to 0      *)
(* before the next sample is evaluated, so idle time never accumulates     *)
(* across a sample that saw work.                                          *)
C18_WorkClearsIdle ==
    /\ [][C18_ClearStep]_vars
    /\ []C18_NoIdleAcrossWork

(* C18 witness: a sample saw work and the monitor has counted two idle     *)
(* samples since.                                                          *)
C18_Witness ==
    /\ last_busy[1] # -1
    /\ last_idle_time[1] > last_busy[1]
    /\ consecutive_idle_checks[1] = 2

NoTraffic == \A r \in Reqs : spc[r] = "idle"

C20_StoppedSample ==
    \A i \in Servers :
        (SampleStep(i) /\ MonitorStats(i).status = "stopped") =>
            /\ last_idle_time'[i] = last_idle_time[i]
            /\ consecutive_idle_checks'[i] = consecutive_idle_checks[i]
            /\ host_shutdowns' = host_shutdowns

(* C20: while the service is not started (Stats reports stopped), monitor  *)
(* ticks neither record first-idle, nor accumulate idle time, nor invoke   *)
(* HostShutdown.                                                           *)
C20_NoOpWhenStopped == [][C20_StoppedSample]_vars

(* ===================== claims under SpecManifest ======================= *)
(* A load_manifest call whose fetch failed: the request, the status or the *)
(* body's JSON raised.                                                     *)
FetchFailedStep == load_source' \in {"cache_fallback", "no_cache_available"}

(* C21: when the fetch of an http(s) source fails, the manifest is taken   *)
(* from the cache file if one exists, and the load fails leaving the       *)
(* in-memory manifest unchanged if none exists; a successful fetch writes  *)
(* the cache; a local-path load leaves the cache file alone.               *)
C21_FallbackStep ==
    /\ (FetchFailedStep /\ cache_file.exists) =>
          (load_result' = "ok" /\ <<_manifest'>> = ManifestData(cached_doc))
    /\ (FetchFailedStep /\ ~cache_file.exists) =>
          (load_result' # "ok" /\ _manifest' = _manifest)
    /\ load_source' = "fresh_fetch" =>
          (cache_file'.exists /\ JsonLoad(cache_file'.text).v = cached_doc')
    /\ load_source' = "local_file" => cache_file' = cache_file

C21_CacheFallback == [][C21_FallbackStep]_vars

(* C22: after a successful load every model's backend id is a key of the   *)
(* manifest's backends mapping.                                            *)
C22_ReferentialIntegrity ==
    _manifest # NoManifest =>
        \A id \in DOMAIN _manifest.models :
            _manifest.models[id].backend \in DOMAIN _manifest.backends

(* C23: loading from the cache that holds the saved document B gives what  *)
(* constructing the manifest from B itself gives: the same manifest, or a  *)
(* failure that leaves the in-memory manifest as it was.                   *)
C23_RoundTripStep ==
    (FetchFailedStep /\ cache_file.exists) =>
        IF ManifestData(cached_doc) # <<>>
          THEN load_result' = "ok" /\ <<_manifest'>> = ManifestData(cached_doc)
          ELSE load_result' # "ok" /\ _manifest' = _manifest

C23_CacheRoundTrip == [][C23_RoundTripStep]_vars

(* A cache fallback has installed the manifest of a cached document whose  *)
(* keys are not in field order and that has a key no field names.          *)
C23_Witness ==
    /\ load_source = "cache_fallback"
    /\ load_result = "ok"
    /\ cached_doc = DocReordered
    /\ <<_manifest>> = ManifestData(DocReordered)

(* ====================== claims under SpecVersion ======================= *)
(* Component i of a version, a missing component counting as 0.            *)
Component(v, i) == IF i <= Len(v) THEN v[i] ELSE 0

(* a < b as semantic versions: the first component that differs is less.   *)
SemverLess(a, b) ==
    \E k \in 1..(Len(a) + Len(b)) :
        /\ Component(a, k) < Component(b, k)
        /\ \A j \in 1..(k - 1) : Component(a, j) = Component(b, j)

SemverEqual(a, b) ==
    \A k \in 1..(Len(a) + Len(b)) : Component(a, k) = Component(b, k)

(* The advisory's predicate, read as the specification reads it.           *)
PredicateMatches(m, current) ==
    CASE m.message.op = <<"<">> -> SemverLess(current, m.message.target)
      [] m.message.op = <<">">> -> SemverLess(m.message.target, current)
      [] m.message.op = <<"=", "=">> -> SemverEqual(current, m.message.target)
      [] m.message.op = <<>> -> SemverEqual(current, m.message.target)
      [] OTHER -> FALSE

StatedForm(m) == m.message.op \in {<<"<">>, <<">">>, <<"=", "=">>, <<>>}

ManifestAdvisories ==
    IF _manifest = NoManifest \/ _manifest.version_messages = <<>>
      THEN <<>>
      ELSE _manifest.version_messages[1]

(* C24: get_version_messages(current) returns exactly the advisories whose *)
(* predicate matches, in manifest order: <X iff current < X, >X iff        *)
(* current > X, ==X and bare X iff current = X, compared component-wise.   *)
C24_VersionMessages ==
    \A current \in Versions :
        ( /\ current_version = ReleaseText(current)
          /\ \A i \in 1..Len(ManifestAdvisories) :
                StatedForm(ManifestAdvisories[i]) )
        => /\ ~applicable_messages.raised
           /\ applicable_messages.messages =
                SelectSeq(ManifestAdvisories,
                          LAMBDA m : PredicateMatches(m, current))

(* For current 1.2.3 and the advisories <1.2.3 and <1.10, in this order,   *)
(* the call has returned the second one only.                              *)
C24_Witness ==
    /\ current_version = ReleaseText(<<1, 2, 3>>)
    /\ ManifestAdvisories = <<Advisory(<<"<">>, <<1, 2, 3>>, FALSE),
                              Advisory(<<"<">>, <<1, 10>>, FALSE)>>
    /\ applicable_messages.messages = <<Advisory(<<"<">>, <<1, 10>>, FALSE)>>

(* ======================== claims under SpecPath ======================== *)
(* The segments of the path: the maximal runs of characters other than the *)
(* slash, as <<first, last>> positions.                                    *)
Segments ==
    {s \in (1..Len(path)) \X (1..Len(path)) :
        /\ s[1] <= s[2]
        /\ \A k \in s[1]..s[2] : path[k] # "/"
        /\ s[1] = 1 \/ path[s[1] - 1] = "/"
        /\ s[2] = Len(path) \/ path[s[2] + 1] = "/"}

(* The n-th segment, counted from the left.                                *)
Segment(n) ==
    LET s == CHOOSE x \in Segments :
                Cardinality({y \in Segments : y[1] < x[1]}) = n - 1
    IN SubSeq(path, s[1], s[2])

(* C28: the function name is the second segment when the first is v1 and   *)
(* more segments follow, otherwise the last segment, and index when the    *)
(* path has no segment.                                                    *)
C28_FunctionName ==
    function_name # <<>> =>
        function_name =
            IF Segments = {} THEN <<"i", "n", "d", "e", "x">>
            ELSE IF Segment(1) = <<"v", "1">> /\ Cardinality(Segments) > 1
              THEN Segment(2)
            ELSE Segment(Cardinality(Segments))

(* v1/c/1 has given c.                                                     *)
C28_Witness ==
    /\ path = <<"v", "1", "/", "c", "/", "1">>
    /\ function_name = <<"c">>

(* ==================== claims under SpecServe, continued ================ *)

(* C27: record_request is called exactly for the successful dispatches:    *)
(* requests_processed is the number of requests answered on the dynamic    *)
(* route whose result is no error envelope.                                *)
C27_RecordsSuccessOnly ==
    requests_processed =
        Cardinality({r \in Reqs : /\ gpc[r] = "done"
                                  /\ route[r] = "dynamic"
                                  /\ http[r] = 200
                                  /\ sres[r] = "ok"})

(* ======================= claims under SpecRespond ====================== *)

(* The number of items of the generator that is streamed: the first one in *)
(* the result.                                                             *)
StreamedCount == SelectSeq(result.values, LAMBDA v : v.t = "gen")[1].n

(* The chunk frames, the completed frame and, between them, the given      *)
(* frames.                                                                 *)
FramesAround(middle) ==
    [i \in 1..StreamedCount |-> [chunk |-> Items[i]]]
        \o middle \o <<[completed |-> TRUE]>>

C26_OneAnalyticsEntry ==
    (analytics /\ hpc \notin {"none", "new", "exec"}) => Len(api_calls) = 1

(* C29: a result of execute_function is answered with an SSE stream when   *)
(* the stream flag is true and the result is a dict without error that     *)
(* holds a generator, and with a JSON response in every other case.  The   *)
(* flag is absent or a JSON boolean.                                       *)
C29_SseIffStreamFlag ==
    (/\ hpc \notin {"none", "new", "exec"}
     /\ result.kind # "raised"
     /\ stream \in {"absent", "True", "False"})
        => http_response.kind =
             IF /\ stream = "True"
                /\ result.kind = "dict"
                /\ ~result.error
                /\ \E i \in DOMAIN result.values : result.values[i].t = "gen"
               THEN "sse"
               ELSE "json"

(* ================= claims under SpecMonitor, continued ================= *)

(* A step that invokes the external shutdown command is a sample of one    *)
(* monitor that is idle, whose first idle sample lies before now and after *)
(* the last sample that saw work, and whose idle duration has reached the  *)
(* timeout.                                                                *)
C30_ShutdownStep ==
    host_shutdowns' # host_shutdowns =>
        \E i \in Servers :
            /\ SampleStep(i)
            /\ SampleIdle(i)
            /\ last_idle_time[i] # -1
            /\ last_idle_time[i] < now
            /\ last_busy[i] < last_idle_time[i]
            /\ consecutive_idle_checks[i] >= 1
            /\ now - last_idle_time[i] >= shutdown_timeout
            /\ host_shutdowns' = Append(host_shutdowns, now)
            /\ shutdown_attempted'[i]

(* C30: HostShutdown is invoked only at a monitor tick whose own sample is  *)
(* idle, where first-idle was recorded at an earlier idle sample, every    *)
(* sample in between was idle and now - first-idle >= idle_threshold;      *)
(* never at the first idle sample nor with a shorter idle duration.        *)
C30_ShutdownOnlyAfterIdleThreshold == [][C30_ShutdownStep]_vars

(* C30 witness: work was seen, and the shutdown came at the third idle     *)
(* sample after it.                                                        *)
C30_Witness ==
    /\ Len(host_shutdowns) = 1
    /\ last_busy[1] # -1
    /\ last_idle_time[1] > last_busy[1]
    /\ consecutive_idle_checks[1] = 3
    /\ host_shutdowns[1] - last_idle_time[1] >= shutdown_timeout

(* ================ claims under SpecManifest, continued ================= *)

(* C40: the manifest cache file only ever holds a document that passed     *)
(* manifest validation, so that a load falling back to it succeeds.        *)
C40_CacheHoldsValidManifest ==
    cache_file.exists =>
        /\ JsonLoad(cache_file.text).ok
        /\ ManifestData(JsonLoad(cache_file.text).v) # <<>>

(* ================= claims under SpecService, continued ================= *)

(* C31: between operations the worker pool is set iff the handle list is   *)
(* non-empty iff current_model is set, and is_running() is true exactly    *)
(* when all three are set.                                                 *)
C31_TripleAtomic ==
    svc_pc = "idle" =>
        /\ worker_pool <=> worker_backends # <<>>
        /\ worker_pool <=> current_model # "None"
        /\ IsRunning <=> (/\ worker_pool
                          /\ worker_backends # <<>>
                          /\ current_model # "None")

(* C36: after a successful start with n workers the service holds exactly  *)
(* n backend handles, one per worker; a start that could not create all of *)
(* them has failed.                                                        *)
C36_HandlePerWorker ==
    (svc_pc = "idle" /\ start_result = "ok") =>
        Len(worker_backends) = n_workers

(* ================== claims under SpecStats, continued ================== *)

(* A worker whose function raised completes the request's future once,     *)
(* with the error envelope, then decrements processing and is back at the  *)
(* head of its loop.                                                       *)
C35_RaiseStep ==
    \A w \in Workers :
        /\ (wpc[w] = "run" /\ wpc'[w] # "run") =>
              /\ wpc'[w] = "fin"
              /\ fval'[wjob[w]] \in {"ok", "error"}
              /\ completions'[wjob[w]] = completions[wjob[w]] + 1
        /\ (wpc[w] = "fin" /\ wpc'[w] # "fin") =>
              /\ wpc'[w] = "loop"
              /\ processing_count' = processing_count - 1

C37_EffectiveTimeout ==
    LET number == CASE timeout_arg.t \in {"num", "bool"} -> timeout_arg.v
                    [] timeout_arg.t = "str" /\ timeout_arg.v >= 0 -> timeout_arg.v
                    [] OTHER -> 0
    IN /\ tpc # "raised"
       /\ tpc = "submitted" =>
             /\ "timeout" \notin function_kwargs
             /\ effective_timeout = IF number # 0 THEN number
                                                  ELSE default_timeout

(* ================= claims under SpecManager, continued ================= *)

(* C32: the idle monitor lives only while the HTTP gateway is running:     *)
(* between the manager's operations, a monitor loop that was not told to   *)
(* stop belongs to a gateway that is up.                                   *)
C32_MonitorOnlyWhileGatewayUp ==
    mgr_pc = "idle" =>
        \A i \in Servers :
            (mon_pc[i] = "wait" /\ ~shutdown_event[i]) => server_alive[i]

(* ================= claims under SpecMonitor, continued ================= *)

(* At the step that invokes the external shutdown command no accepted      *)
(* request is in the queue or held by a worker.                            *)
C38_ShutdownStep ==
    host_shutdowns' # host_shutdowns =>
        /\ \A k \in DOMAIN request_queue : request_queue[k] = None
        /\ \A w \in Workers : wpc[w] \notin {"got", "run", "fin"}

C33_TickStep ==
    \A i \in Servers :
        /\ consecutive_errors'[i] # consecutive_errors[i] =>
              \/ consecutive_errors'[i] = 0
              \/ /\ consecutive_errors'[i] = consecutive_errors[i] + 1
                 /\ host_shutdowns' = host_shutdowns
                 /\ mon_pc'[i] = "exited" <=> consecutive_errors'[i] > 5
        /\ (SampleStep(i) /\ last_idle_time'[i] # last_idle_time[i]) =>
              consecutive_errors'[i] = 0

(* C33: when a monitor tick fails to read pool stats the consecutive-error *)
(* counter is incremented and the monitor exits only when the counter      *)
(* exceeds 5; a successful read resets it to 0; read failures never invoke *)
(* HostShutdown.                                                           *)
C33_ErrorCounter == [][C33_TickStep]_vars

(* ===================== claims under SpecManagerLive ==================== *)

(* Once set, a shutdown event stays set and its monitor takes no sample;   *)
(* the shutdown command is invoked only by a sample of a monitor whose     *)
(* event is not set.                                                       *)
C34_EventStep ==
    /\ \A i \in Servers :
          shutdown_event[i] =>
              /\ shutdown_event'[i]
              /\ ~(SampleStep(i))
              /\ last_idle_time'[i] = last_idle_time[i]
              /\ consecutive_idle_checks'[i] = consecutive_idle_checks[i]
    /\ host_shutdowns' # host_shutdowns =>
          \E i \in Servers : SampleStep(i) /\ ~shutdown_event[i]

C39_StructuredOutcome ==
    \A r \in Reqs : sres[r] # "raised" /\ http[r] # 500

====
